---- MODULE Spec2Model ----
(***************************************************************************)
(* Verification model of the cs-fantasy scoring and module lifecycle code: *)
(*   - the rule engine        (fantasy/utils/scoring_engine.py)            *)
(*   - the scoring orchestrator and module save/stage advancement          *)
(*                            (fantasy/models/core.py)                     *)
(*   - finalization and population tasks                                   *)
(*                            (fantasy/tasks/module_finalization.py)       *)
(*                                                                         *)
(* Six specifications share the variables below:                           *)
(*   SpecRules    the rule engine applied to bounded rule lists            *)
(*   SpecSchedule module create/save/delete and the Schedule table         *)
(*   SpecStage    completion of the modules of a stage and advancement     *)
(*   SpecFinalize the finalize_module task on two workers                  *)
(*   SpecPopulate the population retry ladder of one stage                 *)
(*   SpecScores   update_scores of one module                              *)
(***************************************************************************)
EXTENDS Integers, Sequences, FiniteSets, TLC

VARIABLES
    \* ---- rule engine (SpecRules)
    rules,        \* the rule list handed to evaluate_rules: indices into RulePool
    pair,         \* the prediction/result pair: an index into PairPool
    handler,      \* the handler argument of evaluate_rules
    evalOut,      \* the EvaluationResult returned by the last call
    rpc,          \* "ready" before the call, "evaluated" after it
    matchPrediction,  \* the UserMatchPrediction row scored (SpecBracket)
    matchResult,      \* the BracketMatch row it is scored against
    maxMinOut,    \* the (max, min) returned by get_max_and_min_scores
    document,     \* the rule-set document handed to the validator (SpecValidate)
    validateOut,  \* the (is_valid, errors) returned by validate
    \* ---- module lifecycle (SpecSchedule, SpecStage, SpecFinalize)
    now,          \* timezone.now(), in minutes
    tournament,   \* the Tournament row: [hltv_url]
    stages,       \* the Stage rows, by id
    modules,      \* the BaseModule rows, by id
    schedules,    \* the django_q Schedule table: a sequence of rows
    asyncQueue,   \* the tasks handed to async_task, in order
    results,      \* the result rows of all modules (SwissResult, ...)
    tasks,        \* the finalize_module task of each worker slot
    populateLog,  \* the results returned by populate_stage_modules, in order
    \* ---- scoring orchestrator (SpecScores)
    predictions,  \* the prediction rows of the module: (user, team) -> score
    scoreRows,    \* the UserModuleScore table: a sequence of rows
    tournamentScores  \* the UserTournamentScore table: a sequence of rows

rulesVars ==
    <<rules, pair, handler, evalOut, rpc, matchPrediction, matchResult,
      maxMinOut, document, validateOut>>

lifeVars ==
    <<now, tournament, stages, modules, schedules, asyncQueue, results, tasks,
      populateLog>>

scoreVars == <<predictions, scoreRows, tournamentScores>>

vars == <<rulesVars, lifeVars, scoreVars>>

(***************************************************************************)
(* Values of the rule language.  Python values are tagged so that values   *)
(* of different types can be compared: None, an int, a list, an object.    *)
(***************************************************************************)
PyNone == [k |-> "none", v |-> 0]

PyInt(n) == [k |-> "int", v |-> n]

PyList(s) == [k |-> "list", v |-> s]

PyObj(f) == [k |-> "obj", v |-> f]

\* Python's == on the values above.
RECURSIVE PyEq(_, _)
PyEq(a, b) ==
    /\ a.k = b.k
    /\ CASE a.k = "none" -> TRUE
         [] a.k = "int"  -> a.v = b.v
         [] a.k = "list" -> /\ Len(a.v) = Len(b.v)
                            /\ \A i \in 1..Len(a.v) : PyEq(a.v[i], b.v[i])
         [] OTHER        -> /\ DOMAIN a.v = DOMAIN b.v
                            /\ \A f \in DOMAIN a.v : PyEq(a.v[f], b.v[f])

\* resolve_path: follows the keys of a dotted path; a missing key or a
\* non-object on the way yields None.
RECURSIVE resolve_path(_, _)
resolve_path(obj, path) ==
    IF path = <<>> THEN obj
    ELSE IF obj.k = "obj" /\ Head(path) \in DOMAIN obj.v
         THEN resolve_path(obj.v[Head(path)], Tail(path))
         ELSE PyNone

Context(prediction, result) ==
    PyObj([prediction |-> prediction, result |-> result])

IsList(x) == x.k = "list"

IsNone(x) == x.k = "none"

\* ---- condition operators

_eval_condition_eq(condition, prediction, result) ==
    LET source_val == resolve_path(Context(prediction, result), condition.source)
        target_val == resolve_path(Context(prediction, result), condition.target)
    IN  ~IsNone(source_val) /\ PyEq(source_val, target_val)

_eval_condition_always_true(condition, prediction, result) == TRUE

_eval_condition_in_list(condition, prediction, result) ==
    LET source_val  == resolve_path(Context(prediction, result), condition.source)
        target_list == resolve_path(Context(prediction, result), condition.target_list)
    IN  IF IsNone(source_val) \/ ~IsList(target_list) THEN FALSE
        ELSE IF condition.list_item_key # <<>>
             THEN \E i \in 1..Len(target_list.v) :
                      PyEq(resolve_path(target_list.v[i], condition.list_item_key),
                           source_val)
             ELSE \E i \in 1..Len(target_list.v) : PyEq(target_list.v[i], source_val)

\* A scan that accepts any item of the value within the threshold.
TopXAnyItem(items, i, source_val, condition) ==
    \E k \in i..Len(items) :
        /\ PyEq(resolve_path(items[k], condition.list_item_key), source_val)
        /\ resolve_path(items[k], condition.position_key).k = "int"
        /\ resolve_path(items[k], condition.position_key).v <= condition.top_x

\* The loop of in_list_within_top_x over the target list from item i on.
RECURSIVE TopXScan(_, _, _, _)
TopXScan(items, i, source_val, condition) ==
    IF i > Len(items) THEN FALSE
    ELSE IF PyEq(resolve_path(items[i], condition.list_item_key), source_val)
         THEN LET position == resolve_path(items[i], condition.position_key)
              IN  position.k = "int" /\ position.v <= condition.top_x
         ELSE TopXScan(items, i + 1, source_val, condition)

_eval_condition_in_list_within_top_x(condition, prediction, result) ==
    LET source_val  == resolve_path(Context(prediction, result), condition.source)
        target_list == resolve_path(Context(prediction, result), condition.target_list)
    IN  IF \/ IsNone(source_val)
           \/ ~IsList(target_list)
           \/ condition.list_item_key = <<>>
           \/ condition.position_key = <<>>
           \/ ~condition.has_top_x
        THEN FALSE
        ELSE TopXScan(target_list.v, 1, source_val, condition)

_eval_condition_list_intersects(condition, prediction, result) ==
    LET list1 == resolve_path(Context(prediction, result), condition.source_list)
        list2 == resolve_path(Context(prediction, result), condition.target_list)
    IN  IF ~IsList(list1) \/ ~IsList(list2) THEN FALSE
        ELSE \E i \in 1..Len(list1.v), j \in 1..Len(list2.v) :
                 PyEq(list1.v[i], list2.v[j])

\* eval_condition: the operator table; an operator that is not registered
\* evaluates to False.  "and" is all() over its conditions, False when empty.
RECURSIVE eval_condition(_, _, _)
eval_condition(condition, prediction, result) ==
    CASE condition.operator = "eq" ->
            _eval_condition_eq(condition, prediction, result)
      [] condition.operator = "always_true" ->
            _eval_condition_always_true(condition, prediction, result)
      [] condition.operator = "in_list" ->
            _eval_condition_in_list(condition, prediction, result)
      [] condition.operator = "in_list_within_top_x" ->
            _eval_condition_in_list_within_top_x(condition, prediction, result)
      [] condition.operator = "list_intersects" ->
            _eval_condition_list_intersects(condition, prediction, result)
      [] condition.operator = "and" ->
            /\ condition.conditions # <<>>
            /\ \A i \in 1..Len(condition.conditions) :
                   eval_condition(condition.conditions[i], prediction, result)
      [] OTHER -> FALSE

\* ---- scoring operators

_eval_scoring_fixed(scoring, prediction, result) == scoring.value

\* The loop of map_points over the target list from item i on.
RECURSIVE MapPointsScan(_, _, _, _)
MapPointsScan(items, i, source_value, scoring) ==
    IF i > Len(items) THEN 0
    ELSE IF PyEq(resolve_path(items[i], scoring.list_item_key), source_value)
         THEN IF i <= Len(scoring.scores) THEN scoring.scores[i] ELSE 0
         ELSE MapPointsScan(items, i + 1, source_value, scoring)

_eval_scoring_map_points(scoring, prediction, result) ==
    LET source_value == resolve_path(Context(prediction, result), scoring.source_value)
        target_list  == resolve_path(Context(prediction, result), scoring.target_list)
    IN  IF IsNone(source_value) \/ ~IsList(target_list) \/ scoring.list_item_key = <<>>
        THEN 0
        ELSE MapPointsScan(target_list.v, 1, source_value, scoring)

Abs(n) == IF n < 0 THEN -n ELSE n

_eval_scoring_scaled_difference(scoring, prediction, result) ==
    LET val1 == resolve_path(Context(prediction, result), scoring.source1)
        val2 == resolve_path(Context(prediction, result), scoring.source2)
    IN  IF val1.k # "int" \/ val2.k # "int" \/ scoring.unit = 0 THEN 0
        ELSE (Abs(val1.v - val2.v) \div scoring.unit) * scoring.points_per_unit

eval_scoring(scoring, prediction, result) ==
    CASE scoring.operator = "fixed" ->
            _eval_scoring_fixed(scoring, prediction, result)
      [] scoring.operator = "map_points" ->
            _eval_scoring_map_points(scoring, prediction, result)
      [] scoring.operator = "scaled_difference" ->
            _eval_scoring_scaled_difference(scoring, prediction, result)
      [] OTHER -> 0


\* ---- evaluate_rules

\* rule.get("exclusive", False) on a matching rule: the break out of the loop.
StopsNever(rule) == FALSE

StopsAfter(rule) == rule.exclusive

\* The for-loop of evaluate_rules from rule i on; acc holds the scores and
\* the breakdown items collected so far.
RECURSIVE EvalLoop(_, _, _, _, _)
EvalLoop(rs, i, prediction, result, acc) ==
    IF i > Len(rs) THEN acc
    ELSE LET rule     == rs[i]
             is_match == IF ~rule.has_condition THEN TRUE
                         ELSE eval_condition(rule.condition, prediction, result)
             score    == eval_scoring(rule.scoring, prediction, result)
             item     == [prediction_pk |-> prediction.v.pk.v,
                          rule_id       |-> rule.id,
                          points        |-> score,
                          description   |-> rule.description]
             acc2     == [scores          |-> Append(acc.scores, score),
                          breakdown_items |-> Append(acc.breakdown_items, item)]
         IN  IF is_match
             THEN IF StopsAfter(rule) THEN acc2
                  ELSE EvalLoop(rs, i + 1, prediction, result, acc2)
             ELSE EvalLoop(rs, i + 1, prediction, result, acc)

RECURSIVE SumSeq(_)
SumSeq(s) == IF s = <<>> THEN 0 ELSE Head(s) + SumSeq(Tail(s))

evaluate_rules(rs, prediction, result, h) ==
    LET out == EvalLoop(rs, 1, prediction, result,
                        [scores |-> <<>>, breakdown_items |-> <<>>])
    IN  [total_score |-> IF h = "sum" THEN SumSeq(out.scores) ELSE 0,
         breakdown   |-> out.breakdown_items]

(***************************************************************************)
(* Inputs of the rule engine: a pool of rules in the shapes the module     *)
(* seeds use (exclusive tiers, an additive bonus, a rule without a         *)
(* condition, a leaderboard rule, a rule whose operator is not in the      *)
(* operator table) and a pool of prediction/result pairs.                  *)
(***************************************************************************)
MaxRules == 3

Handlers == {"sum", "max"}

Standing(name, position) ==
    PyObj([name |-> PyInt(name), position |-> PyInt(position)])

RulePool == <<
    [id |-> "exact_match", description |-> "exact", exclusive |-> TRUE,
     has_condition |-> TRUE,
     condition |-> [operator |-> "eq",
                    source |-> <<"prediction", "score">>,
                    target |-> <<"result", "score">>],
     scoring |-> [operator |-> "fixed", value |-> 3]],
    [id |-> "bonus", description |-> "bonus", exclusive |-> FALSE,
     has_condition |-> TRUE,
     condition |-> [operator |-> "always_true"],
     scoring |-> [operator |-> "fixed", value |-> 1]],
    [id |-> "winner", description |-> "winner", exclusive |-> FALSE,
     has_condition |-> TRUE,
     condition |-> [operator |-> "eq",
                    source |-> <<"prediction", "name">>,
                    target |-> <<"result", "winner">>],
     scoring |-> [operator |-> "fixed", value |-> 2]],
    [id |-> "untitled_rule", description |-> "Points awarded for matching rule.",
     exclusive |-> TRUE, has_condition |-> FALSE,
     condition |-> [operator |-> "always_true"],
     scoring |-> [operator |-> "fixed", value |-> -1]],
    [id |-> "top_2", description |-> "leaderboard", exclusive |-> TRUE,
     has_condition |-> TRUE,
     condition |-> [operator |-> "in_list_within_top_x",
                    source |-> <<"prediction", "name">>,
                    target_list |-> <<"result", "standings">>,
                    list_item_key |-> <<"name">>,
                    position_key |-> <<"position">>,
                    has_top_x |-> TRUE, top_x |-> 2],
     scoring |-> [operator |-> "map_points",
                  source_value |-> <<"prediction", "name">>,
                  target_list |-> <<"result", "standings">>,
                  list_item_key |-> <<"name">>,
                  scores |-> <<5, 4>>]],
    [id |-> "teams", description |-> "teams", exclusive |-> TRUE,
     has_condition |-> TRUE,
     condition |-> [operator |-> "set_equal",
                    sources |-> << <<"prediction", "name">> >>,
                    targets |-> << <<"result", "winner">> >>],
     scoring |-> [operator |-> "fixed", value |-> 3]],
    [id |-> "close", description |-> "close", exclusive |-> TRUE,
     has_condition |-> TRUE,
     condition |-> [operator |-> "eq",
                    source |-> <<"prediction", "name">>,
                    target |-> <<"result", "winner">>],
     scoring |-> [operator |-> "fixed", value |-> 1]],
    [id |-> "top_1", description |-> "leader", exclusive |-> FALSE,
     has_condition |-> TRUE,
     condition |-> [operator |-> "in_list_within_top_x",
                    source |-> <<"prediction", "name">>,
                    target_list |-> <<"result", "standings">>,
                    list_item_key |-> <<"name">>,
                    position_key |-> <<"position">>,
                    has_top_x |-> TRUE, top_x |-> 1],
     scoring |-> [operator |-> "fixed", value |-> 4]]
>>

PairPool == <<
    [prediction |-> PyObj([pk |-> PyInt(1), score |-> PyInt(2), name |-> PyInt(7)]),
     result     |-> PyObj([score |-> PyInt(2), winner |-> PyInt(7),
                           standings |-> PyList(<<Standing(7, 1), Standing(8, 2)>>)])],
    [prediction |-> PyObj([pk |-> PyInt(2), score |-> PyInt(1), name |-> PyInt(8)]),
     result     |-> PyObj([score |-> PyInt(2), winner |-> PyInt(7),
                           standings |-> PyList(<<Standing(7, 1), Standing(8, 2),
                                                  Standing(9, 3)>>)])],
    [prediction |-> PyObj([pk |-> PyInt(3), score |-> PyInt(2), name |-> PyInt(9)]),
     result     |-> PyObj([score |-> PyInt(2), winner |-> PyInt(7),
                           standings |-> PyList(<<Standing(7, 1), Standing(8, 1),
                                                  Standing(9, 2)>>)])],
    [prediction |-> PyObj([pk |-> PyInt(4), name |-> PyNone]),
     result     |-> PyObj([score |-> PyInt(2), winner |-> PyInt(7)])],
    [prediction |-> PyObj([pk |-> PyInt(5), score |-> PyInt(1), name |-> PyInt(7)]),
     result     |-> PyObj([score |-> PyInt(2), winner |-> PyInt(8),
                           standings |-> PyList(<<Standing(7, 3), Standing(7, 1),
                                                  Standing(8, 2)>>)])],
    [prediction |-> PyObj([pk |-> PyInt(6), score |-> PyInt(2), name |-> PyInt(6)]),
     result     |-> PyObj([score |-> PyInt(2), winner |-> PyInt(7),
                           standings |-> PyList(<<Standing(7, 1), Standing(8, 2)>>)])]
>>

RuleLists ==
    UNION {[1..n -> 1..Len(RulePool)] : n \in 0..MaxRules}

\* The rule list of the call, as rule documents.
RulesOf(idx) == [i \in 1..Len(idx) |-> RulePool[idx[i]]]

NoEval == [total_score |-> 0, breakdown |-> <<>>]

NoMaxMin == [max |-> 0, min |-> 0]

NoValidation == [is_valid |-> TRUE, errors |-> <<>>]

\* A UserMatchPrediction and a BracketMatch row; 0 in an id column is NULL.
NoMatchPrediction ==
    [pk |-> 0, team_a_id |-> 0, team_b_id |-> 0, predicted_winner_id |-> 0,
     predicted_team_a_score |-> 0, predicted_team_b_score |-> 0]

NoMatchResult ==
    [team_a_id |-> 0, team_b_id |-> 0, winner_id |-> 0,
     team_a_score |-> 0, team_b_score |-> 0, tags |-> <<>>]

InitRulesVars ==
    /\ rules \in RuleLists
    /\ pair \in 1..Len(PairPool)
    /\ handler \in Handlers
    /\ evalOut = NoEval
    /\ rpc = "ready"
    /\ matchPrediction = NoMatchPrediction
    /\ matchResult = NoMatchResult
    /\ maxMinOut = NoMaxMin
    /\ document = <<>>
    /\ validateOut = NoValidation

\* One call evaluate_rules(rules, prediction, result, handler).
Evaluate ==
    /\ rpc = "ready"
    /\ evalOut' = evaluate_rules(RulesOf(rules), PairPool[pair].prediction,
                                 PairPool[pair].result, handler)
    /\ rpc' = "evaluated"
    /\ UNCHANGED <<rules, pair, handler, matchPrediction, matchResult, maxMinOut,
                   document, validateOut, lifeVars, scoreVars>>

\* ---- get_max_and_min_scores

RECURSIVE MaxOfSeq(_)
MaxOfSeq(s) ==
    IF Len(s) = 1 THEN s[1]
    ELSE LET m == MaxOfSeq(Tail(s)) IN IF s[1] >= m THEN s[1] ELSE m

RECURSIVE MinOfSeq(_)
MinOfSeq(s) ==
    IF Len(s) = 1 THEN s[1]
    ELSE LET m == MinOfSeq(Tail(s)) IN IF s[1] <= m THEN s[1] ELSE m

\* rule_max of one rule: the value of fixed, the largest score of
\* map_points (0 for an empty list), 0 for every other operator.
RuleMax(rule) ==
    CASE rule.scoring.operator = "fixed" -> rule.scoring.value
      [] rule.scoring.operator = "map_points" ->
            IF rule.scoring.scores # <<>> THEN MaxOfSeq(rule.scoring.scores) ELSE 0
      [] OTHER -> 0

\* rule_min of one rule: 0 in every branch.
RuleMin(rule) == 0

\* The exclusive maxima all added up.
ExclusiveMaxSummed(exclusive_maxes) == SumSeq(exclusive_maxes)

\* max(exclusive_maxes) if exclusive_maxes else 0
ExclusiveMax(exclusive_maxes) ==
    IF exclusive_maxes # <<>> THEN MaxOfSeq(exclusive_maxes) ELSE 0

\* min(exclusive_mins) if exclusive_mins else 0
ExclusiveMin(exclusive_mins) ==
    IF exclusive_mins # <<>> THEN MinOfSeq(exclusive_mins) ELSE 0

\* The for-loop of get_max_and_min_scores from rule i on.
RECURSIVE MaxMinLoop(_, _, _)
MaxMinLoop(rs, i, acc) ==
    IF i > Len(rs) THEN acc
    ELSE IF rs[i].exclusive
    THEN MaxMinLoop(rs, i + 1,
             [acc EXCEPT !.exclusive_maxes = Append(@, RuleMax(rs[i])),
                         !.exclusive_mins = Append(@, RuleMin(rs[i]))])
    ELSE MaxMinLoop(rs, i + 1,
             [acc EXCEPT !.non_exclusive_max_sum = @ + RuleMax(rs[i]),
                         !.non_exclusive_min_sum = @ + RuleMin(rs[i])])

get_max_and_min_scores(rs) ==
    LET acc == MaxMinLoop(rs, 1, [exclusive_maxes |-> <<>>, exclusive_mins |-> <<>>,
                                  non_exclusive_max_sum |-> 0,
                                  non_exclusive_min_sum |-> 0])
    IN  [max |-> ExclusiveMax(acc.exclusive_maxes) + acc.non_exclusive_max_sum,
         min |-> ExclusiveMin(acc.exclusive_mins) + acc.non_exclusive_min_sum]

\* One call get_max_and_min_scores(rules).
MaxAndMin ==
    /\ rpc = "ready"
    /\ maxMinOut' = get_max_and_min_scores(RulesOf(rules))
    /\ rpc' = "bounded"
    /\ UNCHANGED <<rules, pair, handler, evalOut, matchPrediction, matchResult,
                   document, validateOut, lifeVars, scoreVars>>

(***************************************************************************)
(* ScoringConfigValidator.  A rule document says which keys it has: a      *)
(* condition or scoring block carries its operator (if any) and the set of *)
(* its other keys; a path is the sequence of its steps, rules[2].scoring   *)
(* being <<"rules", 2, "scoring">>.                                        *)
(***************************************************************************)
CONDITION_OPERATORS ==
    {"eq", "and", "in_list", "in_list_within_top_x", "list_intersects",
     "always_true", "list_contains_literal", "set_equal"}

SCORING_OPERATORS == {"fixed", "map_points", "scaled_difference"}

CONDITION_REQUIRED_FIELDS(operator) ==
    CASE operator = "eq" -> <<"source", "target">>
      [] operator = "and" -> <<"conditions">>
      [] operator = "in_list" -> <<"source", "target_list", "list_item_key">>
      [] operator = "in_list_within_top_x" ->
            <<"source", "target_list", "list_item_key", "position_key", "top_x">>
      [] operator = "list_intersects" -> <<"source_list", "target_list">>
      [] operator = "list_contains_literal" -> <<"source_value", "target_list">>
      [] operator = "set_equal" -> <<"source_list", "target_list">>
      [] OTHER -> <<>>

SCORING_REQUIRED_FIELDS(operator) ==
    CASE operator = "fixed" -> <<"value">>
      [] operator = "map_points" ->
            <<"source_value", "target_list", "list_item_key", "scores">>
      [] operator = "scaled_difference" ->
            <<"source1", "source2", "unit", "points_per_unit">>
      [] OTHER -> <<>>

ValidationError(path, message) == [path |-> path, message |-> message]

\* A validation that reports the first missing field only.
RequiredFirstOnly(required, i, block, path, operator) ==
    LET missing == {k \in i..Len(required) : required[k] \notin block.fields}
    IN  IF missing = {} THEN <<>>
        ELSE <<ValidationError(
                   Append(path, required[CHOOSE k \in missing :
                                             \A j \in missing : k <= j]),
                   "requires field")>>

\* The loop over the required fields from field i on.
RECURSIVE RequiredLoop(_, _, _, _, _)
RequiredLoop(required, i, block, path, operator) ==
    IF i > Len(required) THEN <<>>
    ELSE (IF required[i] \notin block.fields
          THEN <<ValidationError(Append(path, required[i]), "requires field")>>
          ELSE <<>>)
         \o RequiredLoop(required, i + 1, block, path, operator)

RECURSIVE _validate_condition(_, _)
RECURSIVE SubConditionLoop(_, _, _)

\* The errors _validate_condition appends, in order.
_validate_condition(condition, path) ==
    IF ~condition.has_operator
    THEN <<ValidationError(Append(path, "operator"), "must have an operator")>>
    ELSE IF condition.operator \notin CONDITION_OPERATORS
    THEN <<ValidationError(Append(path, "operator"), "unknown operator")>>
    ELSE RequiredLoop(CONDITION_REQUIRED_FIELDS(condition.operator), 1,
                      condition, path, condition.operator)
         \o (IF condition.operator = "and" /\ "conditions" \in condition.fields
             THEN SubConditionLoop(condition.conditions, 1, path)
             ELSE <<>>)

\* for i, sub_cond in enumerate(condition["conditions"]): indices from 0.
SubConditionLoop(conditions, i, path) ==
    IF i > Len(conditions) THEN <<>>
    ELSE _validate_condition(conditions[i],
                             path \o <<"conditions", i - 1>>)
         \o SubConditionLoop(conditions, i + 1, path)

\* The errors _validate_scoring appends, in order.
_validate_scoring(scoring, path) ==
    IF ~scoring.has_operator
    THEN <<ValidationError(Append(path, "operator"), "must have an operator")>>
    ELSE IF scoring.operator \notin SCORING_OPERATORS
    THEN <<ValidationError(Append(path, "operator"), "unknown operator")>>
    ELSE RequiredLoop(SCORING_REQUIRED_FIELDS(scoring.operator), 1, scoring, path,
                      scoring.operator)

\* The errors _validate_rule appends, in order.
_validate_rule(rule, path) ==
    (IF ~rule.has_id
     THEN <<ValidationError(Append(path, "id"), "must have an id")>> ELSE <<>>)
    \o (IF ~rule.has_condition
        THEN <<ValidationError(Append(path, "condition"), "must have a condition")>>
        ELSE _validate_condition(rule.condition, Append(path, "condition")))
    \o (IF ~rule.has_scoring
        THEN <<ValidationError(Append(path, "scoring"), "must have a scoring")>>
        ELSE _validate_scoring(rule.scoring, Append(path, "scoring")))
    \o (IF rule.has_exclusive /\ ~rule.exclusive_is_bool
        THEN <<ValidationError(Append(path, "exclusive"), "must be boolean")>>
        ELSE <<>>)

\* for i, rule in enumerate(rules): indices from 0.
RECURSIVE RuleLoop(_, _)
RuleLoop(rule_docs, i) ==
    IF i > Len(rule_docs) THEN <<>>
    ELSE _validate_rule(rule_docs[i], <<"rules", i - 1>>)
         \o RuleLoop(rule_docs, i + 1)

\* ScoringConfigValidator.validate of {"rules": rule_docs}.
validate(rule_docs) ==
    LET errors == RuleLoop(rule_docs, 1)
    IN  [is_valid |-> Len(errors) = 0, errors |-> errors]

\* A block of a rule document.
Block(operator, fields) ==
    [has_operator |-> TRUE, operator |-> operator, fields |-> fields,
     conditions |-> <<>>]

NoBlock == [has_operator |-> FALSE, operator |-> "", fields |-> {}, conditions |-> <<>>]

RuleDoc(has_id, has_condition, condition, has_scoring, scoring) ==
    [has_id |-> has_id, has_condition |-> has_condition, condition |-> condition,
     has_scoring |-> has_scoring, scoring |-> scoring,
     has_exclusive |-> TRUE, exclusive_is_bool |-> TRUE]

\* The rule documents of the scenario: a well-formed rule; one without id
\* whose fixed scoring has no value; one with neither condition nor
\* scoring; one with two unknown operators; one whose "and" holds an eq
\* without target and an in_list without target_list and list_item_key,
\* scored by a map_points without list_item_key and scores; one whose
\* condition has no operator and whose exclusive is not a boolean.
DocRulePool == <<
    RuleDoc(TRUE, TRUE, Block("eq", {"source", "target"}),
            TRUE, Block("fixed", {"value"})),
    RuleDoc(FALSE, TRUE, Block("always_true", {}), TRUE, Block("fixed", {})),
    RuleDoc(TRUE, FALSE, NoBlock, FALSE, NoBlock),
    RuleDoc(TRUE, TRUE, Block("near", {"source"}), TRUE, Block("bonus", {"value"})),
    RuleDoc(TRUE, TRUE,
            [Block("and", {"conditions"}) EXCEPT
                !.conditions = <<Block("eq", {"source"}),
                                 Block("in_list", {"source"})>>],
            TRUE, Block("map_points", {"source_value", "target_list"})),
    [RuleDoc(TRUE, TRUE, [NoBlock EXCEPT !.fields = {"source", "target"}],
             TRUE, Block("fixed", {"value"}))
        EXCEPT !.exclusive_is_bool = FALSE]
>>

MaxDocRules == 3

Documents == UNION {[1..n -> 1..Len(DocRulePool)] : n \in 0..MaxDocRules}

DocumentOf(idx) == [i \in 1..Len(idx) |-> DocRulePool[idx[i]]]

\* One call validate_scoring_config({"rules": document}).
Validate ==
    /\ rpc = "ready"
    /\ validateOut' = validate(DocumentOf(document))
    /\ rpc' = "validated"
    /\ UNCHANGED <<rules, pair, handler, evalOut, matchPrediction, matchResult,
                   maxMinOut, document, lifeVars, scoreVars>>

(***************************************************************************)
(* Bracket scoring: the default rule set of a bracket and                  *)
(* Bracket.calculate_scores on one match prediction.                       *)
(***************************************************************************)
\* The tag "final" of a match, as a code.
Final == 1

WinnerCondition ==
    [operator |-> "eq",
     source |-> <<"prediction", "predicted_winner_id">>,
     target |-> <<"result", "winner_id">>]

LoserCondition ==
    [operator |-> "eq",
     source |-> <<"prediction", "predicted_loser_id">>,
     target |-> <<"result", "loser_id">>]

ScoreACondition ==
    [operator |-> "eq",
     source |-> <<"prediction", "predicted_team_a_score">>,
     target |-> <<"result", "team_a_score">>]

ScoreBCondition ==
    [operator |-> "eq",
     source |-> <<"prediction", "predicted_team_b_score">>,
     target |-> <<"result", "team_b_score">>]

TeamsCondition ==
    [operator |-> "set_equal",
     source_list |-> << <<"prediction", "team_a_id">>,
                        <<"prediction", "team_b_id">> >>,
     target_list |-> << <<"result", "team_a_id">>, <<"result", "team_b_id">> >>]

FinalCondition ==
    [operator |-> "list_contains_literal",
     source_value |-> Final,
     target_list |-> <<"result", "tags">>]

get_default_bracket_scoring_config == <<
    [id |-> "correct_final_winner_bonus", description |-> "final winner bonus",
     exclusive |-> FALSE, has_condition |-> TRUE,
     condition |-> [operator |-> "and",
                    conditions |-> <<WinnerCondition, FinalCondition>>],
     scoring |-> [operator |-> "fixed", value |-> 1]],
    [id |-> "correct_winner_score_and_teams",
     description |-> "winner, score and teams",
     exclusive |-> TRUE, has_condition |-> TRUE,
     condition |-> [operator |-> "and",
                    conditions |-> <<WinnerCondition, ScoreACondition,
                                     ScoreBCondition, TeamsCondition>>],
     scoring |-> [operator |-> "fixed", value |-> 3]],
    [id |-> "correct_winner_and_score", description |-> "winner and score",
     exclusive |-> TRUE, has_condition |-> TRUE,
     condition |-> [operator |-> "and",
                    conditions |-> <<WinnerCondition, ScoreACondition,
                                     ScoreBCondition>>],
     scoring |-> [operator |-> "fixed", value |-> 2]],
    [id |-> "correct_loser_and_score", description |-> "loser and score",
     exclusive |-> TRUE, has_condition |-> TRUE,
     condition |-> [operator |-> "and",
                    conditions |-> <<LoserCondition, ScoreACondition,
                                     ScoreBCondition>>],
     scoring |-> [operator |-> "fixed", value |-> 2]],
    [id |-> "correct_winner", description |-> "winner",
     exclusive |-> TRUE, has_condition |-> TRUE,
     condition |-> WinnerCondition,
     scoring |-> [operator |-> "fixed", value |-> 1]],
    [id |-> "correct_loser", description |-> "loser",
     exclusive |-> TRUE, has_condition |-> TRUE,
     condition |-> LoserCondition,
     scoring |-> [operator |-> "fixed", value |-> 1]]
>>

\* A nullable id column as the engine reads it.
IdOrNone(n) == IF n = 0 THEN PyNone ELSE PyInt(n)

\* BracketMatch.loser / UserMatchPrediction.predicted_loser, as an id.
LoserId(winner_id, team_a_id, team_b_id) ==
    IF winner_id = 0 \/ team_a_id = 0 \/ team_b_id = 0 THEN 0
    ELSE IF winner_id = team_a_id THEN team_b_id ELSE team_a_id

\* The match prediction with predicted_loser_id set, as the engine reads it.
MatchPredictionObject(p) ==
    PyObj([pk |-> PyInt(p.pk),
           team_a_id |-> IdOrNone(p.team_a_id),
           team_b_id |-> IdOrNone(p.team_b_id),
           predicted_winner_id |-> IdOrNone(p.predicted_winner_id),
           predicted_team_a_score |-> PyInt(p.predicted_team_a_score),
           predicted_team_b_score |-> PyInt(p.predicted_team_b_score),
           predicted_loser_id |->
               IdOrNone(LoserId(p.predicted_winner_id, p.team_a_id, p.team_b_id))])

\* The match with loser_id set, as the engine reads it.
MatchResultObject(r) ==
    PyObj([team_a_id |-> IdOrNone(r.team_a_id),
           team_b_id |-> IdOrNone(r.team_b_id),
           winner_id |-> IdOrNone(r.winner_id),
           team_a_score |-> PyInt(r.team_a_score),
           team_b_score |-> PyInt(r.team_b_score),
           loser_id |-> IdOrNone(LoserId(r.winner_id, r.team_a_id, r.team_b_id)),
           tags |-> PyList([i \in 1..Len(r.tags) |-> PyInt(r.tags[i])])])

\* The body of the loop of Bracket.calculate_scores for one match
\* prediction: a match without a winner is not scored.
ScoreMatchPrediction ==
    /\ rpc = "ready"
    /\ IF matchResult.winner_id # 0
       THEN /\ evalOut' = evaluate_rules(get_default_bracket_scoring_config,
                                         MatchPredictionObject(matchPrediction),
                                         MatchResultObject(matchResult), "sum")
            /\ rpc' = "evaluated"
       ELSE /\ evalOut' = NoEval
            /\ rpc' = "skipped"
    /\ UNCHANGED <<rules, pair, handler, matchPrediction, matchResult, maxMinOut,
                   document, validateOut, lifeVars, scoreVars>>


\* C1: evaluate_rules processes the rules in list order and stops right after
\* the first rule that matches and is exclusive: the breakdown lists exactly
\* the matching rules up to and including that rule (all matching rules when
\* no exclusive rule matches), in order, each with its points, and under the
\* default handler total_score is the sum of those points.
RuleMatches(i) ==
    LET rule == RulePool[rules[i]]
    IN  IF rule.has_condition
        THEN eval_condition(rule.condition, PairPool[pair].prediction,
                            PairPool[pair].result)
        ELSE TRUE

\* Position of the first matching exclusive rule, or the list length.
CutOff ==
    LET hits == {i \in 1..Len(rules) : RuleMatches(i) /\ RulePool[rules[i]].exclusive}
    IN  IF hits = {} THEN Len(rules)
        ELSE CHOOSE i \in hits : \A j \in hits : i <= j

Fired == {i \in 1..CutOff : RuleMatches(i)}

\* The k-th smallest member of Fired.
FiredAt(k) == CHOOSE i \in Fired : Cardinality({j \in Fired : j <= i}) = k

PointsOf(i) ==
    eval_scoring(RulePool[rules[i]].scoring, PairPool[pair].prediction,
                 PairPool[pair].result)

RECURSIVE SumOver(_)
SumOver(S) ==
    IF S = {} THEN 0
    ELSE LET i == CHOOSE x \in S : TRUE IN PointsOf(i) + SumOver(S \ {i})

C1_ExclusiveStops ==
    rpc = "evaluated" =>
        /\ Len(evalOut.breakdown) = Cardinality(Fired)
        /\ \A k \in 1..Len(evalOut.breakdown) :
               /\ evalOut.breakdown[k].rule_id = RulePool[rules[FiredAt(k)]].id
               /\ evalOut.breakdown[k].points = PointsOf(FiredAt(k))
        /\ handler = "sum" => evalOut.total_score = SumOver(Fired)

\* C1 witness: a call in which a non-exclusive rule fired, then an exclusive
\* rule fired, and a later matching rule was cut off.
C1_Witness ==
    /\ rpc = "evaluated"
    /\ handler = "sum"
    /\ Len(rules) = 3
    /\ RuleMatches(1) /\ ~RulePool[rules[1]].exclusive
    /\ RuleMatches(2) /\ RulePool[rules[2]].exclusive
    /\ RuleMatches(3)
    /\ Len(evalOut.breakdown) = 2
    /\ evalOut.total_score = PointsOf(1) + PointsOf(2)

\* C9: the returned total_score equals the sum of the points of the returned
\* breakdown items, for every handler argument.
RECURSIVE BreakdownPoints(_)
BreakdownPoints(items) ==
    IF items = <<>> THEN 0 ELSE Head(items).points + BreakdownPoints(Tail(items))

C9_TotalIsSumOfBreakdown ==
    rpc = "evaluated" => evalOut.total_score = BreakdownPoints(evalOut.breakdown)


(***************************************************************************)
(* Module lifecycle: the rows of the store and BaseModule.save.            *)
(* An optional date is <<>> (None) or <<t>>.                               *)
(***************************************************************************)
NoDate == <<>>

At(t) == <<t>>

HasDate(d) == d # <<>>

ModuleIds == {1, 2}

ModuleTypes == {"swissmodule", "bracket", "statpredictionsmodule"}

\* The stage of the modules and its successor.
StageId == 1

NextStageId == 2

StageIds == {StageId, NextStageId}

NoStage == 0

\* A module row before it exists: the field defaults of BaseModule.
NoModule ==
    [status |-> "none", mtype |-> "swissmodule", stage |-> StageId,
     end_date |-> NoDate, finalization_delay_minutes |-> 60,
     prediction_deadline |-> NoDate, is_completed |-> FALSE,
     finalized_at |-> NoDate, blocking_advancement |-> TRUE,
     scoring_config |-> 1]

\* Schedule names: finalize_<type>_<id>, populate_stage_<id>_retry_<n>,
\* deadline_reminder_<id>_<n>min.
FinalizationTaskName(mtype, id) ==
    [kind |-> "finalize", mtype |-> mtype, id |-> id, n |-> 0]

PopulationRetryName(stage_id, attempt) ==
    [kind |-> "populate_stage_retry", mtype |-> "", id |-> stage_id, n |-> attempt]

DeadlineReminderName(id, minutes_before) ==
    [kind |-> "deadline_reminder", mtype |-> "", id |-> id, n |-> minutes_before]

\* Rows of table `rows` whose name is `name`.
Named(rows, name) == {i \in 1..Len(rows) : rows[i].name = name}

\* Schedule.objects.create: a new row at the end of the table.
ScheduleCreate(rows, row) == Append(rows, row)

\* Schedule.objects.update_or_create(name=..., defaults=...): the row of that
\* name takes the defaults; without one a row is created.
ScheduleUpdateOrCreateAlwaysCreates(rows, row) == Append(rows, row)

ScheduleUpdateOrCreate(rows, row) ==
    IF Named(rows, row.name) = {} THEN Append(rows, row)
    ELSE [i \in 1..Len(rows) |-> IF rows[i].name = row.name THEN row ELSE rows[i]]

\* Schedule.objects.filter(name=...).delete()
ScheduleDelete(rows, name) == SelectSeq(rows, LAMBDA r : r.name # name)

\* ContentType.objects.get_for_model(cls).id
ContentTypeId(mtype) ==
    CASE mtype = "swissmodule" -> 1
      [] mtype = "bracket" -> 2
      [] OTHER -> 3

\* BaseModule._schedule_finalization
_schedule_finalization(rows, id, self) ==
    ScheduleUpdateOrCreate(rows,
        [name     |-> FinalizationTaskName(self.mtype, id),
         func     |-> "fantasy.tasks.finalize_module",
         args     |-> <<ContentTypeId(self.mtype), id>>,
         next_run |-> self.end_date[1] + self.finalization_delay_minutes,
         repeats  |-> 1])

\* A cancellation that deletes nothing.
_cancel_nothing(rows, id, self) == rows

\* BaseModule._cancel_finalization
_cancel_finalization(rows, id, self) ==
    ScheduleDelete(rows, FinalizationTaskName(self.mtype, id))

\* schedule_deadline_reminders: one reminder per lead time that is still in
\* the future.
ReminderMinutes == <<1440, 120, 30>>

RECURSIVE RemindersFrom(_, _, _, _, _)
RemindersFrom(rows, i, id, self, t) ==
    IF i > Len(ReminderMinutes) THEN rows
    ELSE LET reminder_time == self.prediction_deadline[1] - ReminderMinutes[i]
         IN  IF reminder_time <= t
             THEN RemindersFrom(rows, i + 1, id, self, t)
             ELSE RemindersFrom(
                      ScheduleUpdateOrCreate(rows,
                          [name     |-> DeadlineReminderName(id, ReminderMinutes[i]),
                           func     |-> "fantasy.tasks.deadline_reminders.send_deadline_reminder",
                           args     |-> <<id, ReminderMinutes[i]>>,
                           next_run |-> reminder_time,
                           repeats  |-> 1]),
                      i + 1, id, self, t)

schedule_deadline_reminders(rows, id, self, t) ==
    IF ~HasDate(self.prediction_deadline) THEN rows
    ELSE RemindersFrom(rows, 1, id, self, t)

\* The store as one value, so that the steps of a handler compose.
Store == [modules |-> modules, schedules |-> schedules, stages |-> stages,
          asyncQueue |-> asyncQueue]

Live(db, m) == db.modules[m].status = "live"

\* A filter that forgets the blocking flag: every module of the stage.
EveryModuleBlocks(db, stage_id) ==
    {m \in ModuleIds : Live(db, m) /\ db.modules[m].stage = stage_id}

\* BaseModule.objects.filter(stage=..., blocking_advancement=True)
BlockingModules(db, stage_id) ==
    {m \in ModuleIds : /\ Live(db, m)
                       /\ db.modules[m].stage = stage_id
                       /\ db.modules[m].blocking_advancement}

AnyBlockingCompleted(db, stage_id) ==
    \E m \in BlockingModules(db, stage_id) : db.modules[m].is_completed

AllBlockingCompleted(db, stage_id) ==
    \A m \in BlockingModules(db, stage_id) : db.modules[m].is_completed

\* async_task("fantasy.tasks.populate_stage_modules", next_stage.id)
PopulateTask(stage_id) ==
    [func |-> "fantasy.tasks.populate_stage_modules", args |-> <<stage_id>>]

\* A check that never advances the stage.
_skip_stage_advancement(db, self) == db

\* BaseModule._check_stage_advancement
_check_stage_advancement(db, self) ==
    LET stage_id   == self.stage
        next_stage == db.stages[stage_id].next_stage
        completed  == [db.stages EXCEPT ![stage_id].is_completed = TRUE]
    IN  IF ~AllBlockingCompleted(db, stage_id) THEN db
        ELSE IF next_stage = NoStage THEN [db EXCEPT !.stages = completed]
        ELSE [db EXCEPT
                 !.stages = [completed EXCEPT ![next_stage].is_active = TRUE],
                 !.asyncQueue = Append(db.asyncQueue, PopulateTask(next_stage))]

\* The row BaseModule.save writes: every field, or only update_fields.
WrittenRow(old, self, update_fields) ==
    IF update_fields = "all" THEN self
    ELSE [old EXCEPT !.is_completed = self.is_completed,
                     !.finalized_at = self.finalized_at]

\* check_stage_completion of BaseModule.save: the stored row was open and
\* the instance is completed.
CheckStageCompletion(db, id, self, creating) ==
    /\ ~creating
    /\ db.modules[id].status = "live"
    /\ ~db.modules[id].is_completed
    /\ self.is_completed

\* BaseModule.save up to the call of _check_stage_advancement: the row is
\* written and the finalization task and the reminders are scheduled.
SaveWrite(db, id, self, creating, update_fields, t) ==
    LET old      == db.modules[id]
        found    == ~creating /\ old.status = "live"
        schedule_needed ==
            \/ creating
            \/ ~found
            \/ old.end_date # self.end_date
            \/ old.finalization_delay_minutes # self.finalization_delay_minutes
        written  == [db EXCEPT !.modules[id] =
                         WrittenRow(old, [self EXCEPT !.status = "live"],
                                    IF found THEN update_fields ELSE "all")]
        sched1   == IF schedule_needed /\ HasDate(self.end_date) /\ ~self.is_completed
                    THEN _schedule_finalization(written.schedules, id, self)
                    ELSE written.schedules
        sched2   == schedule_deadline_reminders(sched1, id, self, t)
    IN  [written EXCEPT !.schedules = sched2]

\* BaseModule.save of the in-memory instance `self` with primary key id
\* (creating: pk is None before the save).  Yields the store after the save.
Save(db, id, self, creating, update_fields, t) ==
    IF CheckStageCompletion(db, id, self, creating)
    THEN _check_stage_advancement(SaveWrite(db, id, self, creating,
                                            update_fields, t), self)
    ELSE SaveWrite(db, id, self, creating, update_fields, t)

\* Whether the save raises: update_fields on a row that is gone.
SaveRaises(db, id, creating, update_fields) ==
    ~creating /\ db.modules[id].status # "live" /\ update_fields # "all"


(***************************************************************************)
(* Actions of the module lifecycle.                                        *)
(***************************************************************************)
MaxAsync == 2

MaxTasks == 2

Workers == 1..MaxTasks

TickMinutes == 60

NoRet == [status |-> "", reason |-> ""]

IdleTask == [pc |-> "idle", module |-> 0, self |-> NoModule, ret |-> NoRet]

\* The store after a handler: the handler's writes become the next state.
Commit(db) ==
    /\ Len(db.asyncQueue) <= MaxAsync
    /\ modules' = db.modules
    /\ schedules' = db.schedules
    /\ stages' = db.stages
    /\ asyncQueue' = db.asyncQueue

\* Module(...).save() of a new instance: ids are handed out in order.
CreateModule(m, mtype, end_date, prediction_deadline, blocking, completed) ==
    /\ modules[m].status = "none"
    /\ \A k \in ModuleIds : k < m => modules[k].status # "none"
    /\ Commit(Save(Store, m,
                   [NoModule EXCEPT !.mtype = mtype,
                                    !.end_date = end_date,
                                    !.prediction_deadline = prediction_deadline,
                                    !.blocking_advancement = blocking,
                                    !.is_completed = completed],
                   TRUE, "all", now))
    /\ UNCHANGED <<now, tournament, results, tasks, populateLog>>

\* An edit of an existing module (admin form): load, assign, save().
SaveModule(m, end_date, delay, prediction_deadline, blocking, completed) ==
    /\ modules[m].status = "live"
    /\ Commit(Save(Store, m,
                   [modules[m] EXCEPT !.end_date = end_date,
                                      !.finalization_delay_minutes = delay,
                                      !.prediction_deadline = prediction_deadline,
                                      !.blocking_advancement = blocking,
                                      !.is_completed = completed],
                   FALSE, "all", now))
    /\ UNCHANGED <<now, tournament, results, tasks, populateLog>>

\* BaseModule.delete: cancel the finalization task, then delete the row and,
\* by cascade, its result rows.
DeleteModule(m) ==
    /\ modules[m].status = "live"
    /\ schedules' = _cancel_finalization(schedules, m, modules[m])
    /\ modules' = [modules EXCEPT ![m].status = "deleted"]
    /\ results' = SelectSeq(results, LAMBDA r : r.module # m)
    /\ UNCHANGED <<now, tournament, stages, asyncQueue, tasks, populateLog>>

\* timezone.now() advances.
Tick(limit) ==
    /\ now < limit
    /\ now' = now + TickMinutes
    /\ UNCHANGED <<tournament, stages, modules, schedules, asyncQueue, results,
                   tasks, populateLog>>

\* A schedule row is due.
Due(row) == row.repeats # 0 /\ row.next_run <= now

\* The scheduler of the task queue hands a due ONCE schedule to the cluster:
\* a row with negative repeats is deleted, any other keeps repeats = 0.
Dispatch(i) ==
    /\ i \in 1..Len(schedules)
    /\ Due(schedules[i])
    /\ Len(asyncQueue) < MaxAsync
    /\ asyncQueue' = Append(asyncQueue, [func |-> schedules[i].func,
                                         args |-> schedules[i].args])
    /\ schedules' =
           IF schedules[i].repeats < 0
           THEN [j \in 1..(Len(schedules) - 1) |->
                    IF j < i THEN schedules[j] ELSE schedules[j + 1]]
           ELSE [schedules EXCEPT ![i].repeats = 0]
    /\ UNCHANGED <<now, tournament, stages, modules, results, tasks, populateLog>>

\* Time passes only while the cluster has nothing to run.
TickIdle(limit) ==
    /\ asyncQueue = <<>>
    /\ \A i \in 1..Len(schedules) : ~Due(schedules[i])
    /\ Tick(limit)


(***************************************************************************)
(* populate_stage_modules and its retry ladder.                            *)
(***************************************************************************)
\* Retry delays in minutes: 1h, 2h, 4h, 6h, 12h, 24h
POPULATION_RETRY_DELAYS == <<60, 120, 240, 360, 720, 1440>>

\* A ladder test that always passes: a retry whatever the attempt number.
LadderUnbounded(attempt) == TRUE

\* A ladder whose every step waits as long as the first.
RetryDelayFlat(attempt) == POPULATION_RETRY_DELAYS[1]

\* attempt < len(POPULATION_RETRY_DELAYS)
LadderHasStep(attempt) == attempt < Len(POPULATION_RETRY_DELAYS)

\* The delay of the retry after `attempt` (the last delay past the ladder,
\* which only a ladder test that always passes can ask for).
RetryDelay(attempt) ==
    IF attempt < Len(POPULATION_RETRY_DELAYS)
    THEN POPULATION_RETRY_DELAYS[attempt + 1]
    ELSE POPULATION_RETRY_DELAYS[Len(POPULATION_RETRY_DELAYS)]

\* _schedule_population_retry: Schedule.objects.create, repeats left at its
\* default of -1.
_schedule_population_retry(rows, stage_id, attempt, delay_minutes, t) ==
    ScheduleCreate(rows,
        [name     |-> PopulationRetryName(stage_id, attempt),
         func     |-> "fantasy.tasks.populate_stage_modules",
         args     |-> <<stage_id, attempt>>,
         next_run |-> t + delay_minutes,
         repeats  |-> -1])

\* BaseModule.objects.filter(stage=stage)
StageModules(db, stage_id) ==
    {m \in ModuleIds : Live(db, m) /\ db.modules[m].stage = stage_id}

\* populate_stage_modules(stage_id, attempt).  fetch_ok: the fetch returned;
\* statuses: what the population handler of each module returned.  Yields
\* the Schedule table and the task's result.
populate_stage_modules(db, stage_id, attempt, fetch_ok, statuses, t) ==
    LET incomplete_modules ==
            {m \in StageModules(db, stage_id) : statuses[m] = "incomplete"}
        ret(status, reason, delay) ==
            [stage_id |-> stage_id, attempt |-> attempt, status |-> status,
             reason |-> reason, delay_minutes |-> delay, at |-> t]
    IN  IF stage_id \notin DOMAIN db.stages
        THEN [schedules |-> db.schedules, ret |-> ret("error", "stage_not_found", 0)]
        ELSE IF ~(db.stages[stage_id].hltv_url \/ tournament.hltv_url)
        THEN [schedules |-> db.schedules, ret |-> ret("error", "missing_url", 0)]
        ELSE IF ~fetch_ok
        THEN [schedules |-> db.schedules, ret |-> ret("raised", "fetch", 0)]
        ELSE IF incomplete_modules = {}
        THEN [schedules |-> db.schedules, ret |-> ret("success", "", 0)]
        ELSE IF LadderHasStep(attempt)
        THEN [schedules |-> _schedule_population_retry(
                                db.schedules, stage_id, attempt + 1,
                                RetryDelay(attempt), t),
              ret |-> ret("retry_scheduled", "", RetryDelay(attempt))]
        ELSE [schedules |-> db.schedules,
              ret |-> ret("error", "max_retries_exceeded", 0)]

IsPopulate(task) == task.func = "fantasy.tasks.populate_stage_modules"

IsFinalize(task) == task.func = "fantasy.tasks.finalize_module"

\* The attempt argument of a populate task (default 0).
AttemptOf(task) == IF Len(task.args) >= 2 THEN task.args[2] ELSE 0

MaxPopulateRuns == 9

\* A worker runs the populate task at the head of the queue.
PopulateRun(fetch_ok, statuses) ==
    /\ asyncQueue # <<>>
    /\ IsPopulate(Head(asyncQueue))
    /\ Len(populateLog) < MaxPopulateRuns
    /\ LET task == Head(asyncQueue)
           out  == populate_stage_modules(Store, task.args[1], AttemptOf(task),
                                          fetch_ok, statuses, now)
       IN  /\ schedules' = out.schedules
           /\ populateLog' = Append(populateLog, out.ret)
    /\ asyncQueue' = Tail(asyncQueue)
    /\ UNCHANGED <<now, tournament, stages, modules, results, tasks>>


(***************************************************************************)
(* finalize_module and the finalization handlers.                          *)
(* A result row is [module, key, value]: key is the team (Swiss), the      *)
(* definition (StatPredictions) or the match (Bracket).                    *)
(***************************************************************************)
\* Teams of a Swiss module / matches of a bracket with an hltv id.
ModuleKeys == {1, 2}

\* Score options of a Swiss module (SwissModuleScore) / known winner teams.
KnownValues == {1, 2}

\* The definitions of a StatPredictions module, in query order.
Definitions ==
    <<[id |-> 1, source_url |-> TRUE], [id |-> 2, source_url |-> TRUE],
      [id |-> 3, source_url |-> FALSE]>>

\* What the parser returns for a page: rows [key, value].  Key 9 is a team
\* or match that is not in the module, value 0 a record without a score
\* option (Swiss), an unknown winner (Bracket), an empty leaderboard (Stats).
BatchPool == <<
    <<[key |-> 1, value |-> 1], [key |-> 2, value |-> 2]>>,
    <<[key |-> 9, value |-> 1], [key |-> 1, value |-> 2]>>,
    <<[key |-> 2, value |-> 0], [key |-> 1, value |-> 1]>>,
    <<>>
>>

ResultKeyed(rows, m, key) ==
    {i \in 1..Len(rows) : rows[i].module = m /\ rows[i].key = key}

\* objects.create: always a new row.
ResultCreate(rows, row) == Append(rows, row)

\* update_or_create / bulk_create(update_conflicts=True) on the natural key.
ResultUpdateOrCreate(rows, row) ==
    IF ResultKeyed(rows, row.module, row.key) = {} THEN Append(rows, row)
    ELSE [i \in 1..Len(rows) |->
             IF rows[i].module = row.module /\ rows[i].key = row.key
             THEN row ELSE rows[i]]

\* A join that gives up at the first row it cannot match.
RECURSIVE StoreSwissAborting(_, _, _, _)
StoreSwissAborting(rows, m, batch, i) ==
    IF i > Len(batch) THEN rows
    ELSE IF batch[i].key \notin ModuleKeys \/ batch[i].value \notin KnownValues
    THEN rows
    ELSE StoreSwissAborting(ResultUpdateOrCreate(rows,
                                [module |-> m, key |-> batch[i].key,
                                 value |-> batch[i].value]),
                            m, batch, i + 1)

\* finalize_swiss_module_internal, lines 512-557: join the parsed rows to the
\* module's teams and score options, skip the others, upsert the rest.
RECURSIVE StoreSwiss(_, _, _, _)
StoreSwiss(rows, m, batch, i) ==
    IF i > Len(batch) THEN rows
    ELSE IF batch[i].key \notin ModuleKeys \/ batch[i].value \notin KnownValues
    THEN StoreSwiss(rows, m, batch, i + 1)
    ELSE StoreSwiss(ResultUpdateOrCreate(rows,
                        [module |-> m, key |-> batch[i].key,
                         value |-> batch[i].value]),
                    m, batch, i + 1)

\* finalize_bracket_module_internal, lines 609-636: update the matches of the
\* module that the parsed rows name; a row is never created.
RECURSIVE StoreBracket(_, _, _, _)
StoreBracket(rows, m, batch, i) ==
    IF i > Len(batch) THEN rows
    ELSE IF ResultKeyed(rows, m, batch[i].key) = {}
            \/ batch[i].value \notin KnownValues
    THEN StoreBracket(rows, m, batch, i + 1)
    ELSE StoreBracket([j \in 1..Len(rows) |->
                          IF rows[j].module = m /\ rows[j].key = batch[i].key
                          THEN [rows[j] EXCEPT !.value = batch[i].value]
                          ELSE rows[j]],
                      m, batch, i + 1)

\* The leaderboard parsed for a definition: 0 when the page had none.
Leaderboard(batch, d) ==
    LET hits == {i \in 1..Len(batch) : batch[i].key = d}
    IN  IF hits = {} THEN 0
        ELSE batch[CHOOSE i \in hits : \A j \in hits : i <= j].value

\* finalize_stats_module_internal, lines 682-721: per definition, skip one
\* without a source url or without a leaderboard, upsert the others.  The
\* fetch of definition number fail_at raises (0: none does).
RECURSIVE StoreStats(_, _, _, _, _)
StoreStats(rows, m, batch, i, fail_at) ==
    IF i > Len(Definitions) THEN [rows |-> rows, raised |-> FALSE]
    ELSE IF ~Definitions[i].source_url
    THEN StoreStats(rows, m, batch, i + 1, fail_at)
    ELSE IF i = fail_at THEN [rows |-> rows, raised |-> TRUE]
    ELSE IF Leaderboard(batch, Definitions[i].id) = 0
    THEN StoreStats(rows, m, batch, i + 1, fail_at)
    ELSE StoreStats(ResultUpdateOrCreate(rows,
                        [module |-> m, key |-> Definitions[i].id,
                         value |-> Leaderboard(batch, Definitions[i].id)]),
                    m, batch, i + 1, fail_at)

\* The handler of a module type up to calculate_scores: the result table
\* after it, and how it left: "missing_url", "raised" or "stored".
FinalizeHandlerOut(rows, m, mtype, batch, fail_at) ==
    IF mtype = "statpredictionsmodule"
    THEN LET out == StoreStats(rows, m, batch, 1, fail_at)
         IN  [rows |-> out.rows,
              left |-> IF out.raised THEN "raised" ELSE "stored"]
    ELSE IF ~tournament.hltv_url THEN [rows |-> rows, left |-> "missing_url"]
    ELSE IF fail_at # 0 THEN [rows |-> rows, left |-> "raised"]
    ELSE IF mtype = "swissmodule"
    THEN [rows |-> StoreSwiss(rows, m, batch, 1), left |-> "stored"]
    ELSE [rows |-> StoreBracket(rows, m, batch, 1), left |-> "stored"]

FinalizeTask(m, mtype) ==
    [func |-> "fantasy.tasks.finalize_module", args |-> <<ContentTypeId(mtype), m>>]

\* A finalize_module task is delivered again (redelivery, manual run).
InvokeFinalize(m) ==
    /\ modules[m].status # "none"
    /\ Len(asyncQueue) < MaxAsync
    /\ asyncQueue' = Append(asyncQueue, FinalizeTask(m, modules[m].mtype))
    /\ UNCHANGED <<now, tournament, stages, modules, schedules, results, tasks,
                   populateLog>>

\* A completion test that never skips.
AlreadyCompletedNever(module) == FALSE

\* A completion test that also skips a module another worker has loaded
\* and is finalizing.
AlreadyCompletedOrClaimed(module) ==
    \/ module.is_completed
    \/ \E v \in Workers : tasks[v].pc \in {"handler", "save"} /\ tasks[v].self = module

\* module.is_completed
AlreadyCompleted(module) == module.is_completed

\* module.end_date > timezone.now()
NotEnded(module, t) == module.end_date[1] > t

\* finalize_module, lines 430-448: load the module and decide whether the
\* handler runs.
FinalizeStart(w) ==
    /\ tasks[w].pc = "idle"
    /\ asyncQueue # <<>>
    /\ IsFinalize(Head(asyncQueue))
    /\ LET m      == Head(asyncQueue).args[2]
           module == modules[m]
           end(pc, status, reason) ==
               [pc |-> pc, module |-> m, self |-> module,
                ret |-> [status |-> status, reason |-> reason]]
       IN  tasks' = [tasks EXCEPT ![w] =
               IF module.status # "live" THEN end("idle", "raised", "DoesNotExist")
               ELSE IF AlreadyCompleted(module)
               THEN end("idle", "skipped", "already_completed")
               ELSE IF ~HasDate(module.end_date)
               THEN end("idle", "raised", "TypeError")
               ELSE IF NotEnded(module, now)
               THEN end("idle", "skipped", "not_ended")
               ELSE end("handler", "", "")]
    /\ asyncQueue' = Tail(asyncQueue)
    /\ UNCHANGED <<now, tournament, stages, modules, schedules, results,
                   populateLog>>

\* A handler that marks the module completed before it fetches.
FinalizeHandlerCompletingFirst(w, batch, fail_at, score_raises) ==
    /\ tasks[w].pc = "handler"
    /\ modules[tasks[w].module].status = "live"
    /\ modules' = [modules EXCEPT ![tasks[w].module].is_completed = TRUE,
                                  ![tasks[w].module].finalized_at = At(now)]
    /\ LET out == FinalizeHandlerOut(results, tasks[w].module, tasks[w].self.mtype,
                                     batch, fail_at)
       IN  /\ results' = out.rows
           /\ tasks' = [tasks EXCEPT
                  ![w].pc = IF out.left = "stored" /\ ~score_raises
                            THEN "save" ELSE "idle",
                  ![w].ret = IF out.left = "missing_url"
                             THEN [status |-> "error", reason |-> "missing_url"]
                             ELSE IF out.left = "raised"
                             THEN [status |-> "raised", reason |-> "fetch"]
                             ELSE IF score_raises
                             THEN [status |-> "raised", reason |-> "calculate_scores"]
                             ELSE [status |-> "", reason |-> ""]]
    /\ UNCHANGED <<now, tournament, stages, schedules, asyncQueue, populateLog>>

\* The handler from its first line to calculate_scores.
FinalizeHandler(w, batch, fail_at, score_raises) ==
    /\ tasks[w].pc = "handler"
    /\ LET out == FinalizeHandlerOut(results, tasks[w].module, tasks[w].self.mtype,
                                     batch, fail_at)
           end(pc, status, reason) ==
               [tasks EXCEPT ![w].pc = pc,
                             ![w].ret = [status |-> status, reason |-> reason]]
       IN  /\ results' = out.rows
           /\ tasks' =
                  IF out.left = "missing_url" THEN end("idle", "error", "missing_url")
                  ELSE IF out.left = "raised" THEN end("idle", "raised", "fetch")
                  ELSE IF score_raises
                  THEN end("idle", "raised", "calculate_scores")
                  ELSE end("save", "", "")
    /\ UNCHANGED <<now, tournament, stages, modules, schedules, asyncQueue,
                   populateLog>>

\* The handler's last lines: is_completed, finalized_at,
\* save(update_fields=["is_completed", "finalized_at"]).
FinalizeComplete(w) ==
    /\ tasks[w].pc = "save"
    /\ LET m    == tasks[w].module
           self == [tasks[w].self EXCEPT !.is_completed = TRUE,
                                         !.finalized_at = At(now)]
       IN  IF SaveRaises(Store, m, FALSE, "fields")
           THEN /\ tasks' = [tasks EXCEPT ![w].pc = "idle",
                                ![w].ret = [status |-> "raised",
                                            reason |-> "DatabaseError"]]
                /\ UNCHANGED <<modules, schedules, stages, asyncQueue>>
           ELSE /\ Commit(Save(Store, m, self, FALSE, "fields", now))
                /\ tasks' = [tasks EXCEPT ![w].pc = "idle", ![w].self = self,
                                ![w].ret = [status |-> "success", reason |-> ""]]
    /\ UNCHANGED <<now, tournament, results, populateLog>>


\* The handler's last lines taken apart, as the database sees them: first
\* the module row is written by save(update_fields=[...]) ...
FinalizeWrite(w) ==
    /\ tasks[w].pc = "save"
    /\ LET m    == tasks[w].module
           self == [tasks[w].self EXCEPT !.is_completed = TRUE,
                                         !.finalized_at = At(now)]
       IN  IF SaveRaises(Store, m, FALSE, "fields")
           THEN /\ tasks' = [tasks EXCEPT ![w].pc = "idle",
                                ![w].ret = [status |-> "raised",
                                            reason |-> "DatabaseError"]]
                /\ UNCHANGED <<modules, schedules, stages, asyncQueue>>
           ELSE /\ Commit(SaveWrite(Store, m, self, FALSE, "fields", now))
                /\ tasks' =
                       IF CheckStageCompletion(Store, m, self, FALSE)
                       THEN [tasks EXCEPT ![w].pc = "advance", ![w].self = self]
                       ELSE [tasks EXCEPT ![w].pc = "idle", ![w].self = self,
                                ![w].ret = [status |-> "success", reason |-> ""]]
    /\ UNCHANGED <<now, tournament, results, populateLog>>

\* ... then save calls _check_stage_advancement, which queries the blocking
\* modules of the stage, and the handler returns.
FinalizeAdvance(w) ==
    /\ tasks[w].pc = "advance"
    /\ Commit(_check_stage_advancement(Store, tasks[w].self))
    /\ tasks' = [tasks EXCEPT ![w].pc = "idle",
                              ![w].ret = [status |-> "success", reason |-> ""]]
    /\ UNCHANGED <<now, tournament, results, populateLog>>


(***************************************************************************)
(* The scoring orchestrator: calculate_scores and update_scores.           *)
(***************************************************************************)
Users == {1, 2}

TournamentId == 1

\* The rule sets a module's scoring_config can hold, as lists of RulePool
\* indices; the first is the empty default.
ScoringConfigs == << <<>>, <<1, 2>>, <<3, 4>> >>

\* The prediction and result rows as the objects the rules read.
PredictionObject(key, value) ==
    PyObj([pk |-> PyInt(key), score |-> PyInt(value), name |-> PyInt(key)])

ResultObject(row) ==
    PyObj([score |-> PyInt(row.value), winner |-> PyInt(row.key)])

\* The prediction rows of the module in query order.
PredictionOrder ==
    <<[user |-> 1, key |-> 1], [user |-> 1, key |-> 2],
      [user |-> 2, key |-> 1], [user |-> 2, key |-> 2]>>

\* _get_results_map: {key: result}, a later row replacing an earlier one.
ResultsMapGet(rows, m, key) ==
    LET hits == ResultKeyed(rows, m, key)
    IN  IF hits = {} THEN <<>>
        ELSE <<rows[CHOOSE i \in hits : \A j \in hits : j <= i]>>

\* scores_by_user[user] += ...: the entry of the user, created on first use.
AddScore(scores, user, evaluation) ==
    IF \E i \in 1..Len(scores) : scores[i].user = user
    THEN [i \in 1..Len(scores) |->
             IF scores[i].user = user
             THEN [scores[i] EXCEPT
                      !.total_score = @ + evaluation.total_score,
                      !.breakdown = @ \o evaluation.breakdown]
             ELSE scores[i]]
    ELSE Append(scores, [user |-> user, total_score |-> evaluation.total_score,
                         breakdown |-> evaluation.breakdown])

RECURSIVE ScoreLoop(_, _, _, _, _, _)
ScoreLoop(rule_list, preds, rows, m, i, scores) ==
    IF i > Len(PredictionOrder) THEN scores
    ELSE LET p      == PredictionOrder[i]
             value  == preds[<<p.user, p.key>>]
             result == ResultsMapGet(rows, m, p.key)
         IN  IF value = 0 \/ result = <<>>
             THEN ScoreLoop(rule_list, preds, rows, m, i + 1, scores)
             ELSE ScoreLoop(rule_list, preds, rows, m, i + 1,
                      AddScore(scores, p.user,
                          evaluate_rules(rule_list, PredictionObject(p.key, value),
                                         ResultObject(result[1]), "sum")))

\* BaseModule.calculate_scores: the entries of scores_by_user in insertion
\* order.
calculate_scores(db, preds, rows, m) ==
    LET rule_list == RulesOf(ScoringConfigs[db.modules[m].scoring_config])
    IN  IF rule_list = <<>> THEN <<>>
        ELSE ScoreLoop(rule_list, preds, rows, m, 1, <<>>)

ScoreKeyed(table, user, m) ==
    {i \in 1..Len(table) : /\ table[i].user = user
                           /\ table[i].module = m
                           /\ table[i].tournament = TournamentId}

\* ScoreModel.objects.create
ScoreCreate(table, row) == [table |-> Append(table, row), raised |-> FALSE]

\* ScoreModel.objects.update_or_create(user, module, tournament, defaults):
\* several rows under the key raise MultipleObjectsReturned.
ScoreUpdateOrCreate(table, row) ==
    LET hits == ScoreKeyed(table, row.user, row.module)
    IN  IF hits = {} THEN [table |-> Append(table, row), raised |-> FALSE]
        ELSE IF Cardinality(hits) > 1 THEN [table |-> table, raised |-> TRUE]
        ELSE [table |-> [i \in 1..Len(table) |->
                            IF i \in hits THEN row ELSE table[i]],
              raised |-> FALSE]

RECURSIVE UpdateLoop(_, _, _, _)
UpdateLoop(table, m, scores_data, i) ==
    IF i > Len(scores_data) THEN table
    ELSE LET out == ScoreUpdateOrCreate(table,
                        [user |-> scores_data[i].user, module |-> m,
                         tournament |-> TournamentId,
                         points |-> scores_data[i].total_score,
                         score_breakdown |-> scores_data[i].breakdown])
         IN  IF out.raised THEN out.table
             ELSE UpdateLoop(out.table, m, scores_data, i + 1)

\* BaseModule.update_scores: the UserModuleScore table after the call.
update_scores(table, db, preds, rows, m) ==
    UpdateLoop(table, m, calculate_scores(db, preds, rows, m), 1)

\* A handler that persists the scores it computed.
ScoresAfterUpdate(table, db, preds, rows, m) ==
    update_scores(table, db, preds, rows, m)

\* module.calculate_scores() as the handlers call it: the map is computed
\* and dropped; the UserModuleScore table after the call.
ScoresAfterHandler(table, db, preds, rows, m) ==
    LET scores_by_user == calculate_scores(db, preds, rows, m)
    IN  table

\* The handler from its first line to calculate_scores, with the score
\* tables it leaves: the fetch succeeds and calculate_scores returns.
FinalizeScoring(w, batch) ==
    /\ FinalizeHandler(w, batch, 0, FALSE)
    /\ scoreRows' = ScoresAfterHandler(scoreRows, Store, predictions, results',
                                       tasks[w].module)
    /\ UNCHANGED <<predictions, tournamentScores>>

\* A user submits or changes a prediction (one row per user and team).
SubmitPrediction(user, key, value) ==
    /\ predictions[<<user, key>>] # value
    /\ predictions' = [predictions EXCEPT ![<<user, key>>] = value]
    /\ UNCHANGED <<lifeVars, scoreRows, tournamentScores>>

\* SwissModule.mark_result: update_or_create on (swiss_module, team).
MarkResult(m, key, value) ==
    /\ modules[m].status = "live"
    /\ results' = ResultUpdateOrCreate(results,
                      [module |-> m, key |-> key, value |-> value])
    /\ UNCHANGED <<now, tournament, stages, modules, schedules, asyncQueue,
                   tasks, populateLog, scoreVars>>

\* An edit of the module's scoring_config, saved.
SaveScoringConfig(m, config) ==
    /\ modules[m].status = "live"
    /\ Commit(Save(Store, m, [modules[m] EXCEPT !.scoring_config = config],
                   FALSE, "all", now))
    /\ UNCHANGED <<now, tournament, results, tasks, populateLog, scoreVars>>

\* module.update_scores()
UpdateScores(m) ==
    /\ modules[m].status = "live"
    /\ scoreRows' = update_scores(scoreRows, Store, predictions, results, m)
    /\ UNCHANGED <<lifeVars, predictions, tournamentScores>>

\* has_results of a Swiss or StatPredictions module: self.results.exists()
has_results(rows, m) == \E i \in 1..Len(rows) : rows[i].module = m

\* The prediction rows of a module: those of the first module are the
\* variable part of the scenario, those of the second are fixed (user 1
\* predicted score 1 for team 1, user 2 predicted score 2).
SecondModulePredictions ==
    [p \in Users \X ModuleKeys |-> IF p[2] = 1 THEN p[1] ELSE 0]

PredictionsOf(preds, m) == IF m = 1 THEN preds ELSE SecondModulePredictions

\* calculate_all_module_scores, lines 166-180: update_scores of every module
\* of the tournament that has results, in query order.
RECURSIVE UpdateModules(_, _, _, _, _)
UpdateModules(table, db, preds, rows, m) ==
    IF m \notin ModuleIds THEN table
    ELSE IF Live(db, m) /\ has_results(rows, m)
    THEN UpdateModules(update_scores(table, db, PredictionsOf(preds, m), rows, m),
                       db, preds, rows, m + 1)
    ELSE UpdateModules(table, db, preds, rows, m + 1)

\* scores_by_user[score.user] += score.points over the module score rows:
\* the users in first-appearance order, each with its total.
RECURSIVE SumByUser(_, _, _)
SumByUser(table, i, totals) ==
    IF i > Len(table) THEN totals
    ELSE IF table[i].tournament # TournamentId
    THEN SumByUser(table, i + 1, totals)
    ELSE IF \E j \in 1..Len(totals) : totals[j].user = table[i].user
    THEN SumByUser(table, i + 1,
             [j \in 1..Len(totals) |->
                 IF totals[j].user = table[i].user
                 THEN [totals[j] EXCEPT !.total_points = @ + table[i].points]
                 ELSE totals[j]])
    ELSE SumByUser(table, i + 1,
             Append(totals, [user |-> table[i].user,
                             total_points |-> table[i].points]))

\* UserTournamentScore.objects.create
TournamentScoreCreate(table, row) == Append(table, row)

\* UserTournamentScore.objects.update_or_create(user, tournament, defaults);
\* (user, tournament) is unique in the table.
TournamentScoreUpdateOrCreate(table, row) ==
    IF \E i \in 1..Len(table) :
           table[i].user = row.user /\ table[i].tournament = row.tournament
    THEN [i \in 1..Len(table) |->
             IF table[i].user = row.user /\ table[i].tournament = row.tournament
             THEN row ELSE table[i]]
    ELSE Append(table, row)

RECURSIVE AggregateLoop(_, _, _)
AggregateLoop(table, totals, i) ==
    IF i > Len(totals) THEN table
    ELSE AggregateLoop(
             TournamentScoreUpdateOrCreate(table,
                 [user |-> totals[i].user, tournament |-> TournamentId,
                  total_points |-> totals[i].total_points]),
             totals, i + 1)

\* Tournament.calculate_all_module_scores: both score tables after the call.
calculate_all_module_scores(table, totals_table, db, preds, rows) ==
    LET updated == UpdateModules(table, db, preds, rows, 1)
    IN  [scoreRows |-> updated,
         tournamentScores |->
             AggregateLoop(totals_table, SumByUser(updated, 1, <<>>), 1)]

\* tournament.calculate_all_module_scores()
CalculateAllModuleScores ==
    /\ LET out == calculate_all_module_scores(scoreRows, tournamentScores, Store,
                                              predictions, results)
       IN  /\ scoreRows' = out.scoreRows
           /\ tournamentScores' = out.tournamentScores
    /\ UNCHANGED <<lifeVars, predictions>>


(***************************************************************************)
(* Initial states and specifications.                                      *)
(***************************************************************************)
\* The two stages of the tournament; is_active of the second is the field
\* default (TRUE) or what the creation wizard sets (FALSE).
InitStages(next_active) ==
    [s \in StageIds |->
        IF s = StageId
        THEN [is_active |-> TRUE, is_completed |-> FALSE,
              next_stage |-> NextStageId, hltv_url |-> FALSE]
        ELSE [is_active |-> next_active, is_completed |-> FALSE,
              next_stage |-> NoStage, hltv_url |-> FALSE]]

EmptyStore(next_active) ==
    [modules |-> [m \in ModuleIds |-> NoModule], schedules |-> <<>>,
     stages |-> InitStages(next_active), asyncQueue |-> <<>>]

\* The store after module id was created from `self` at time 0.
Created(db, id, self) == Save(db, id, self, TRUE, "all", 0)

IdleRulesVars ==
    /\ rules = <<>>
    /\ pair = 1
    /\ handler = "sum"
    /\ evalOut = NoEval
    /\ rpc = "ready"
    /\ matchPrediction = NoMatchPrediction
    /\ matchResult = NoMatchResult
    /\ maxMinOut = NoMaxMin
    /\ document = <<>>
    /\ validateOut = NoValidation

IdleScoreVars ==
    /\ predictions = [p \in Users \X ModuleKeys |-> 0]
    /\ scoreRows = <<>>
    /\ tournamentScores = <<>>

\* The lifecycle variables holding store db, nothing queued or running.
LifeVarsAre(db, url) ==
    /\ now = 0
    /\ tournament = [hltv_url |-> url]
    /\ stages = db.stages
    /\ modules = db.modules
    /\ schedules = db.schedules
    /\ asyncQueue = db.asyncQueue
    /\ results = <<>>
    /\ tasks = [w \in Workers |-> IdleTask]
    /\ populateLog = <<>>

\* ---- SpecRules
InitRules ==
    /\ InitRulesVars
    /\ LifeVarsAre(EmptyStore(FALSE), TRUE)
    /\ IdleScoreVars

NextRules == Evaluate \/ MaxAndMin

SpecRules == InitRules /\ [][NextRules]_vars

(***************************************************************************)
(* SpecValidate: one rule-set document is validated.                       *)
(***************************************************************************)
InitValidate ==
    /\ rules = <<>>
    /\ pair = 1
    /\ handler = "sum"
    /\ evalOut = NoEval
    /\ rpc = "ready"
    /\ matchPrediction = NoMatchPrediction
    /\ matchResult = NoMatchResult
    /\ maxMinOut = NoMaxMin
    /\ document \in Documents
    /\ validateOut = NoValidation
    /\ LifeVarsAre(EmptyStore(FALSE), TRUE)
    /\ IdleScoreVars

NextValidate == Validate

SpecValidate == InitValidate /\ [][NextValidate]_vars

(***************************************************************************)
(* SpecBracket: one match prediction of a bracket with the default rule    *)
(* set is scored against its match.                                        *)
(***************************************************************************)
Pairings == {<<1, 2>>, <<2, 1>>, <<1, 3>>, <<1, 0>>}

MapScores == {<<2, 1>>, <<1, 2>>, <<2, 0>>}

MatchPredictions ==
    {[pk |-> 1, team_a_id |-> t[1], team_b_id |-> t[2],
      predicted_winner_id |-> w,
      predicted_team_a_score |-> sc[1], predicted_team_b_score |-> sc[2]] :
        t \in Pairings, w \in {1, 2}, sc \in MapScores}

MatchResults ==
    {[team_a_id |-> t[1], team_b_id |-> t[2], winner_id |-> w,
      team_a_score |-> sc[1], team_b_score |-> sc[2], tags |-> tags] :
        t \in Pairings, w \in {0, 1, 2}, sc \in MapScores,
        tags \in {<<>>, <<Final>>}}

InitBracket ==
    /\ rules = <<>>
    /\ pair = 1
    /\ handler = "sum"
    /\ evalOut = NoEval
    /\ rpc = "ready"
    /\ matchPrediction \in MatchPredictions
    /\ matchResult \in MatchResults
    /\ maxMinOut = NoMaxMin
    /\ document = <<>>
    /\ validateOut = NoValidation
    /\ LifeVarsAre(EmptyStore(FALSE), TRUE)
    /\ IdleScoreVars

NextBracket == ScoreMatchPrediction

SpecBracket == InitBracket /\ [][NextBracket]_vars

\* ---- SpecSchedule
MaxNowSchedule == 60

CreateEndDates == {NoDate, At(60)}

EndDates == {NoDate, At(60), At(120)}

Delays == {60, 30}

Deadlines == {NoDate, At(150)}

\* The type of each module of the schedule scenario.
ScheduleTypes == <<"swissmodule", "bracket">>

InitSchedule ==
    /\ IdleRulesVars
    /\ LifeVarsAre(EmptyStore(FALSE), TRUE)
    /\ IdleScoreVars

NextSchedule ==
    /\ \/ \E m \in ModuleIds, end_date \in CreateEndDates,
            deadline \in Deadlines, completed \in BOOLEAN :
              CreateModule(m, ScheduleTypes[m], end_date,
                           IF m = 1 THEN deadline ELSE NoDate, TRUE, completed)
       \/ \E m \in ModuleIds, end_date \in EndDates, delay \in Delays,
            completed \in BOOLEAN :
              SaveModule(m, end_date, delay, modules[m].prediction_deadline,
                         modules[m].blocking_advancement, completed)
       \/ \E m \in ModuleIds : DeleteModule(m)
       \/ Tick(MaxNowSchedule)
    /\ UNCHANGED <<rulesVars, scoreVars>>

SpecSchedule == InitSchedule /\ [][NextSchedule]_vars

\* ---- SpecStage
StageStore(next_active, blocking1, blocking2) ==
    Created(Created(EmptyStore(next_active), 1,
                    [NoModule EXCEPT !.blocking_advancement = blocking1]),
            2, [NoModule EXCEPT !.blocking_advancement = blocking2])

InitStage ==
    /\ IdleRulesVars
    /\ \E next_active \in BOOLEAN, blocking1 \in BOOLEAN, blocking2 \in BOOLEAN :
           LifeVarsAre(StageStore(next_active, blocking1, blocking2), TRUE)
    /\ IdleScoreVars

NextStage ==
    /\ \E m \in ModuleIds, end_date \in CreateEndDates, blocking \in BOOLEAN,
          completed \in BOOLEAN :
            SaveModule(m, end_date, modules[m].finalization_delay_minutes,
                       modules[m].prediction_deadline, blocking, completed)
    /\ UNCHANGED <<rulesVars, scoreVars>>

SpecStage == InitStage /\ [][NextStage]_vars


\* ---- SpecFinalize
MaxNowFinalize == 120

\* Module 1 ends at minute 60 and is finalized; module 2 has no end_date and
\* does not block the stage.
FinalizeStore(mtype) ==
    Created(Created(EmptyStore(FALSE), 1,
                    [NoModule EXCEPT !.mtype = mtype, !.end_date = At(60)]),
            2, [NoModule EXCEPT !.blocking_advancement = FALSE])

\* The matches of a bracket exist before finalization, without a winner.
InitResults(mtype) ==
    IF mtype = "bracket"
    THEN <<[module |-> 1, key |-> 1, value |-> 0],
           [module |-> 1, key |-> 2, value |-> 0]>>
    ELSE <<>>

InitFinalize ==
    /\ IdleRulesVars
    /\ IdleScoreVars
    /\ \E mtype \in ModuleTypes, url \in BOOLEAN :
          /\ now = 0
          /\ tournament = [hltv_url |-> url]
          /\ stages = FinalizeStore(mtype).stages
          /\ modules = FinalizeStore(mtype).modules
          /\ schedules = FinalizeStore(mtype).schedules
          /\ asyncQueue = <<>>
          /\ results = InitResults(mtype)
          /\ tasks = [w \in Workers |-> IdleTask]
          /\ populateLog = <<>>

AllSucceed == [m \in ModuleIds |-> "success"]

NextFinalize ==
    /\ \/ Tick(MaxNowFinalize)
       \/ \E i \in 1..Len(schedules) : Dispatch(i)
       \/ \E m \in ModuleIds : InvokeFinalize(m)
       \/ \E w \in Workers : FinalizeStart(w)
       \/ \E w \in Workers, b \in 1..Len(BatchPool), fail_at \in 0..2,
            score_raises \in BOOLEAN :
              FinalizeHandler(w, BatchPool[b], fail_at, score_raises)
       \/ \E w \in Workers : FinalizeComplete(w)
       \/ PopulateRun(TRUE, AllSucceed)
       \/ \E m \in ModuleIds : DeleteModule(m)
    /\ UNCHANGED <<rulesVars, scoreVars>>

SpecFinalize == InitFinalize /\ [][NextFinalize]_vars

(***************************************************************************)
(* SpecConcurrent: the two blocking modules of a stage have ended and      *)
(* their finalization tasks are due; two workers run them in any           *)
(* interleaving of their database steps.  The page of each module parses   *)
(* to its own batch.                                                       *)
(***************************************************************************)
ConcurrentStore(mtype1, mtype2) ==
    Created(Created(EmptyStore(FALSE), 1,
                    [NoModule EXCEPT !.mtype = mtype1, !.end_date = At(60)]),
            2, [NoModule EXCEPT !.mtype = mtype2, !.end_date = At(60)])

\* The matches of the brackets exist before finalization, without a winner.
ConcurrentResults(mtype1, mtype2) ==
    (IF mtype1 = "bracket"
     THEN <<[module |-> 1, key |-> 1, value |-> 0],
            [module |-> 1, key |-> 2, value |-> 0]>>
     ELSE <<>>)
    \o (IF mtype2 = "bracket"
        THEN <<[module |-> 2, key |-> 1, value |-> 0],
               [module |-> 2, key |-> 2, value |-> 0]>>
        ELSE <<>>)

\* What the page of module m parses to.
BatchOf(m) == IF m = 1 THEN BatchPool[1] ELSE BatchPool[3]

InitConcurrent ==
    /\ IdleRulesVars
    /\ IdleScoreVars
    /\ \E mtype1 \in ModuleTypes, mtype2 \in ModuleTypes :
          /\ now = 120
          /\ tournament = [hltv_url |-> TRUE]
          /\ stages = ConcurrentStore(mtype1, mtype2).stages
          /\ modules = ConcurrentStore(mtype1, mtype2).modules
          /\ schedules = ConcurrentStore(mtype1, mtype2).schedules
          /\ asyncQueue = <<>>
          /\ results = ConcurrentResults(mtype1, mtype2)
          /\ tasks = [w \in Workers |-> IdleTask]
          /\ populateLog = <<>>

NextConcurrent ==
    /\ \/ \E i \in 1..Len(schedules) : Dispatch(i)
       \/ \E w \in Workers : FinalizeStart(w)
       \/ \E w \in Workers :
              /\ tasks[w].pc = "handler"
              /\ FinalizeHandler(w, BatchOf(tasks[w].module), 0, FALSE)
       \/ \E w \in Workers : FinalizeWrite(w)
       \/ \E w \in Workers : FinalizeAdvance(w)
    /\ UNCHANGED <<rulesVars, scoreVars>>

SpecConcurrent == InitConcurrent /\ [][NextConcurrent]_vars

\* ---- SpecPopulate
MaxNowPopulate == 3000

\* Module 1 of the first stage has just been completed: the second stage,
\* holding module 2, is active and its population is queued.
PopulateStore ==
    LET db == Created(Created(EmptyStore(FALSE), 1, NoModule),
                      2, [NoModule EXCEPT !.stage = NextStageId])
    IN  Save(db, 1, [db.modules[1] EXCEPT !.is_completed = TRUE],
             FALSE, "all", 0)

InitPopulate ==
    /\ IdleRulesVars
    /\ IdleScoreVars
    /\ \E url \in BOOLEAN : LifeVarsAre(PopulateStore, url)

HandlerStatuses == [ModuleIds -> {"success", "incomplete"}]

NextPopulate ==
    /\ \/ \E fetch_ok \in BOOLEAN, statuses \in HandlerStatuses :
              PopulateRun(fetch_ok, statuses)
       \/ \E i \in 1..Len(schedules) : Dispatch(i)
       \/ TickIdle(MaxNowPopulate)
    /\ UNCHANGED <<rulesVars, scoreVars>>

SpecPopulate == InitPopulate /\ [][NextPopulate]_vars

(***************************************************************************)
(* SpecRequeue: the population of the next stage when the blocking module  *)
(* of the first stage is reopened and completed again, which hands another *)
(* populate task for the same stage to the cluster.                        *)
(***************************************************************************)
MaxNowRequeue == 120

MaxRequeueRuns == 4

\* A save of the module that sets only is_completed.
SetCompleted(m, completed) ==
    /\ modules[m].is_completed # completed
    /\ Len(asyncQueue) < MaxAsync
    /\ SaveModule(m, modules[m].end_date, modules[m].finalization_delay_minutes,
                  modules[m].prediction_deadline, modules[m].blocking_advancement,
                  completed)

NextRequeue ==
    /\ \/ /\ Len(populateLog) < MaxRequeueRuns
          /\ \E fetch_ok \in BOOLEAN, statuses \in HandlerStatuses :
                 PopulateRun(fetch_ok, statuses)
       \/ \E i \in 1..Len(schedules) : Dispatch(i)
       \/ TickIdle(MaxNowRequeue)
       \/ \E completed \in BOOLEAN : SetCompleted(1, completed)
    /\ UNCHANGED <<rulesVars, scoreVars>>

SpecRequeue == InitPopulate /\ [][NextRequeue]_vars

\* ---- SpecScores
ScoreStore == Created(EmptyStore(FALSE), 1, NoModule)

\* Who predicts which team in the scenario.
PredictionSlots == {<<1, 1>>, <<1, 2>>, <<2, 1>>}

InitScores ==
    /\ IdleRulesVars
    /\ IdleScoreVars
    /\ LifeVarsAre(ScoreStore, TRUE)

NextScores ==
    /\ \/ \E slot \in PredictionSlots, value \in 0..2 :
              SubmitPrediction(slot[1], slot[2], value)
       \/ \E key \in ModuleKeys, value \in KnownValues : MarkResult(1, key, value)
       \/ \E config \in 1..Len(ScoringConfigs) : SaveScoringConfig(1, config)
       \/ UpdateScores(1)
    /\ UNCHANGED rulesVars

SpecScores == InitScores /\ [][NextScores]_vars

(***************************************************************************)
(* SpecScoredFinalize: a Swiss module scored by the rules exact_match and  *)
(* bonus has ended; users change their predictions, the scores are         *)
(* recomputed by hand, and finalize_module is delivered to two workers.    *)
(***************************************************************************)
ScoredFinalizeStore ==
    Created(Created(EmptyStore(FALSE), 1,
                    [NoModule EXCEPT !.scoring_config = 2, !.end_date = At(60)]),
            2, [NoModule EXCEPT !.blocking_advancement = FALSE])

InitScoredFinalize ==
    /\ IdleRulesVars
    /\ IdleScoreVars
    /\ now = 120
    /\ tournament = [hltv_url |-> TRUE]
    /\ stages = ScoredFinalizeStore.stages
    /\ modules = ScoredFinalizeStore.modules
    /\ schedules = ScoredFinalizeStore.schedules
    /\ asyncQueue = <<>>
    /\ results = <<>>
    /\ tasks = [w \in Workers |-> IdleTask]
    /\ populateLog = <<>>

NextScoredFinalize ==
    /\ \/ \E user \in Users, value \in 0..2 : SubmitPrediction(user, 1, value)
       \/ UpdateScores(1)
       \/ CalculateAllModuleScores
       \/ InvokeFinalize(1) /\ UNCHANGED scoreVars
       \/ \E w \in Workers : FinalizeStart(w) /\ UNCHANGED scoreVars
       \/ \E w \in Workers, b \in {1, 3} : FinalizeScoring(w, BatchPool[b])
       \/ \E w \in Workers : FinalizeComplete(w) /\ UNCHANGED scoreVars
    /\ UNCHANGED rulesVars

SpecScoredFinalize == InitScoredFinalize /\ [][NextScoredFinalize]_vars

(***************************************************************************)
(* SpecTournament: a tournament of two Swiss modules, both scored by the   *)
(* rules exact_match and bonus; results are marked on either module, the   *)
(* users change their predictions of the first, and the scores are         *)
(* recomputed per module or for the whole tournament.                      *)
(***************************************************************************)
TournamentStore ==
    Created(Created(EmptyStore(FALSE), 1, [NoModule EXCEPT !.scoring_config = 2]),
            2, [NoModule EXCEPT !.scoring_config = 2])

InitTournament ==
    /\ IdleRulesVars
    /\ IdleScoreVars
    /\ LifeVarsAre(TournamentStore, TRUE)

NextTournament ==
    /\ \/ \E user \in Users, value \in 0..2 : SubmitPrediction(user, 1, value)
       \/ \E m \in ModuleIds, value \in KnownValues : MarkResult(m, 1, value)
       \/ UpdateScores(1)
       \/ CalculateAllModuleScores
    /\ UNCHANGED rulesVars

SpecTournament == InitTournament /\ [][NextTournament]_vars


(***************************************************************************)
(* Properties of stage advancement (SpecStage).                            *)
(***************************************************************************)
BothBlocking(mods) ==
    \A m \in ModuleIds : /\ mods[m].status = "live"
                         /\ mods[m].stage = StageId
                         /\ mods[m].blocking_advancement

\* A save that turns module m from not completed to completed.
Completes(m) ==
    /\ \E end_date \in CreateEndDates :
           SaveModule(m, end_date, modules[m].finalization_delay_minutes,
                      modules[m].prediction_deadline, TRUE, TRUE)
    /\ ~modules[m].is_completed

\* C2: in a stage with exactly two blocking modules and a next_stage, a save
\* that completes one module while the other is still not completed leaves
\* next_stage.is_active as it was and queues no populate_stage_modules task;
\* a save that completes the last of the two marks the stage completed,
\* makes next_stage active and queues exactly one populate_stage_modules
\* task for next_stage.
C2_SecondCompletionAdvances ==
    [][\A m \in ModuleIds :
          (BothBlocking(modules) /\ Completes(m)) =>
              IF \E k \in ModuleIds \ {m} : ~modules[k].is_completed
              THEN /\ stages' = stages
                   /\ asyncQueue' = asyncQueue
              ELSE /\ stages'[StageId].is_completed
                   /\ stages'[NextStageId].is_active
                   /\ asyncQueue' = Append(asyncQueue, PopulateTask(NextStageId))]_vars

\* C2 witness: both blocking modules completed, the stage completed, the next
\* stage active and one population task queued.
C2_Witness ==
    /\ BothBlocking(modules)
    /\ \A m \in ModuleIds : modules[m].is_completed
    /\ stages[StageId].is_completed
    /\ stages[NextStageId].is_active
    /\ asyncQueue = <<PopulateTask(NextStageId)>>

\* C8: in every reachable state the next stage of a stage is active only if
\* every blocking module of the stage is completed.
C8_NextActiveOnlyAfterBlocking ==
    stages[stages[StageId].next_stage].is_active
        => AllBlockingCompleted(Store, StageId)

(***************************************************************************)
(* Properties of the population retry ladder (SpecPopulate).               *)
(***************************************************************************)
C3_Delays == <<60, 120, 240, 360, 720, 1440>>

LastRun == populateLog'[Len(populateLog')]

\* C3: when populate_stage_modules(stage, k) has a source url, fetches, and
\* finds a module incomplete: for k in 0..5 it creates exactly one schedule
\* row, named populate_stage_<stage>_retry_<k+1>, carrying attempt k+1, due
\* at now + (60, 120, 240, 360, 720, 1440)[k] minutes, and returns
\* retry_scheduled; for k = 6 it creates no schedule row and returns the
\* error max_retries_exceeded.
C3_RetryLadder ==
    [][\A statuses \in HandlerStatuses :
          LET stage_id == Head(asyncQueue).args[1]
              k        == AttemptOf(Head(asyncQueue))
          IN  ( /\ PopulateRun(TRUE, statuses)
                /\ stages[stage_id].hltv_url \/ tournament.hltv_url
                /\ \E m \in StageModules(Store, stage_id) :
                       statuses[m] = "incomplete" )
              => /\ k \in 0..6
                 /\ k <= 5 =>
                      /\ LastRun.status = "retry_scheduled"
                      /\ LastRun.delay_minutes = C3_Delays[k + 1]
                      /\ schedules' = Append(schedules,
                            [name     |-> PopulationRetryName(stage_id, k + 1),
                             func     |-> "fantasy.tasks.populate_stage_modules",
                             args     |-> <<stage_id, k + 1>>,
                             next_run |-> now + C3_Delays[k + 1],
                             repeats  |-> -1])
                 /\ k = 6 =>
                      /\ LastRun.status = "error"
                      /\ LastRun.reason = "max_retries_exceeded"
                      /\ schedules' = schedules]_vars

\* C3 witness: attempt 5 was answered by a retry in 1440 minutes and attempt 6
\* by the terminal error.
C3_Witness ==
    /\ \E i \in 1..Len(populateLog) :
          /\ populateLog[i].attempt = 5
          /\ populateLog[i].status = "retry_scheduled"
          /\ populateLog[i].delay_minutes = 1440
    /\ \E i \in 1..Len(populateLog) :
          /\ populateLog[i].attempt = 6
          /\ populateLog[i].reason = "max_retries_exceeded"

PopulateRows == {i \in 1..Len(schedules) : IsPopulate(schedules[i])}

PopulateQueued == {i \in 1..Len(asyncQueue) : IsPopulate(asyncQueue[i])}

RetriesScheduled ==
    {i \in 1..Len(populateLog) : populateLog[i].status = "retry_scheduled"}

\* C10: the chain started by populate_stage_modules(stage, 0) runs at most 7
\* times and schedules at most 6 retries, of attempts 1..6, one pending at a
\* time; a 7th execution does not schedule a retry, and after the terminal
\* error max_retries_exceeded no population task is scheduled or queued.
C10_ChainTerminates ==
    /\ Len(populateLog) <= 7
    /\ Cardinality(RetriesScheduled) <= 6
    /\ Cardinality(PopulateRows) + Cardinality(PopulateQueued) <= 1
    /\ \A i \in PopulateRows : schedules[i].args[2] \in 1..6
    /\ \A i \in 1..Len(populateLog) : populateLog[i].attempt = i - 1
    /\ Len(populateLog) = 7 => populateLog[7].status # "retry_scheduled"
    /\ \A i \in 1..Len(populateLog) :
          populateLog[i].reason = "max_retries_exceeded"
              => /\ i = Len(populateLog)
                 /\ PopulateRows = {}
                 /\ PopulateQueued = {}

\* C10 witness: the 7th execution has returned the terminal error and nothing
\* is left scheduled.
C10_Witness ==
    /\ Len(populateLog) = 7
    /\ Cardinality(RetriesScheduled) = 6
    /\ populateLog[7].status = "error"
    /\ populateLog[7].reason = "max_retries_exceeded"
    /\ schedules = <<>>
    /\ asyncQueue = <<>>


(***************************************************************************)
(* Properties of finalization (SpecFinalize).                              *)
(***************************************************************************)
\* C4: finalize_module started on a module that is already completed returns
\* skipped/already_completed, and started on a module that is not completed
\* while now < end_date returns skipped/not_ended; in both cases the handler
\* is not entered (so nothing is fetched) and the module rows, the result
\* rows, the stages and the schedule table are left unchanged.
C4_SkipIsNoOp ==
    [][\A w \in Workers :
          LET module == modules[Head(asyncQueue).args[2]]
              done   == module.is_completed
              early  == /\ ~module.is_completed
                        /\ HasDate(module.end_date)
                        /\ now < module.end_date[1]
          IN  (FinalizeStart(w) /\ module.status = "live" /\ (done \/ early))
              => /\ tasks'[w].pc = "idle"
                 /\ tasks'[w].ret =
                        [status |-> "skipped",
                         reason |-> IF done THEN "already_completed"
                                    ELSE "not_ended"]
                 /\ UNCHANGED <<modules, results, stages, schedules, populateLog>>]_vars

\* C4 witness: one worker has skipped a completed module that holds results,
\* the other a module that had not ended.
C4_Witness ==
    \E w \in Workers, v \in Workers :
        /\ tasks[w].ret = [status |-> "skipped", reason |-> "already_completed"]
        /\ modules[tasks[w].module].is_completed
        /\ \E i \in 1..Len(results) : results[i].module = tasks[w].module
        /\ tasks[v].ret = [status |-> "skipped", reason |-> "not_ended"]

NoDuplicateResults ==
    \A i, j \in 1..Len(results) :
        (results[i].module = results[j].module /\ results[i].key = results[j].key)
            => i = j

\* C5: however often finalization of a module is re-run, the result table
\* holds at most one row per natural key (module and team, definition or
\* match), and the step in which a worker leaves the handler keeps every
\* existing row in its place, changing only its value, and adds rows only
\* for keys that had none.
C5_OneResultPerKey ==
    /\ []NoDuplicateResults
    /\ [][\A w \in Workers :
              (tasks[w].pc = "handler" /\ tasks'[w].pc # "handler")
                  => /\ Len(results') >= Len(results)
                     /\ \A i \in 1..Len(results) :
                            /\ results'[i].module = results[i].module
                            /\ results'[i].key = results[i].key
                     /\ \A i \in (Len(results) + 1)..Len(results') :
                            ResultKeyed(results, results'[i].module,
                                        results'[i].key) = {}]_vars

\* C5 witness: a Swiss module whose first run stored 1 for team 1 and 2 for
\* team 2, and whose later run replaced the value of team 1 by 2.
C5_Witness ==
    /\ modules[1].mtype = "swissmodule"
    /\ results = <<[module |-> 1, key |-> 1, value |-> 2],
                   [module |-> 1, key |-> 2, value |-> 2]>>

(***************************************************************************)
(* Properties of the finalization schedule (SpecSchedule).                 *)
(***************************************************************************)
\* Module m was created, or saved with a changed end_date or delay.
CreatedOrRescheduled(m) ==
    /\ modules'[m].status = "live"
    /\ \/ modules[m].status = "none"
       \/ /\ modules[m].status = "live"
          /\ \/ modules'[m].end_date # modules[m].end_date
             \/ modules'[m].finalization_delay_minutes
                    # modules[m].finalization_delay_minutes

\* Exactly one row named finalize_<type>_<id>, due at end_date + delay.
OneFinalizationTask(rows, module, m) ==
    /\ HasDate(module.end_date)
    /\ Cardinality(Named(rows, FinalizationTaskName(module.mtype, m))) = 1
    /\ \A i \in Named(rows, FinalizationTaskName(module.mtype, m)) :
          rows[i].next_run =
              module.end_date[1] + module.finalization_delay_minutes

\* C6 (as stated): after a module is created, and after any later save that
\* changes end_date or finalization_delay_minutes, exactly one finalization
\* task named finalize_<type>_<id> exists, due at end_date + delay.
C6_AlwaysOneTask ==
    [][\A m \in ModuleIds :
          CreatedOrRescheduled(m)
              => OneFinalizationTask(schedules', modules'[m], m)]_vars

\* C6: after a module is created, and after any later save that changes
\* end_date or finalization_delay_minutes, if the saved module has an
\* end_date and is not completed then exactly one finalization task named
\* finalize_<type>_<id> exists, due at end_date + delay.
C6_OneTaskWhenOpenAndDated ==
    [][\A m \in ModuleIds :
          ( /\ CreatedOrRescheduled(m)
            /\ HasDate(modules'[m].end_date)
            /\ ~modules'[m].is_completed )
              => OneFinalizationTask(schedules', modules'[m], m)]_vars

\* C6 witness: module 1, created with the default delay of 60, was saved with
\* end_date 120 and delay 30 and has its single task due at 150.
C6_Witness ==
    /\ modules[1].status = "live"
    /\ ~modules[1].is_completed
    /\ modules[1].end_date = At(120)
    /\ modules[1].finalization_delay_minutes = 30
    /\ OneFinalizationTask(schedules, modules[1], 1)
    /\ \A i \in Named(schedules, FinalizationTaskName(modules[1].mtype, 1)) :
          schedules[i].next_run = 150

(***************************************************************************)
(* Properties of update_scores (SpecScores).                               *)
(***************************************************************************)
NoDuplicateScores(table) ==
    \A i, j \in 1..Len(table) :
        ( /\ table[i].user = table[j].user
          /\ table[i].module = table[j].module
          /\ table[i].tournament = table[j].tournament ) => i = j

AfterUpdate(table) == update_scores(table, Store, predictions, results, 1)

\* C7: from any reachable state, update_scores(module) called twice with the
\* predictions, results and rules unchanged leaves after the second call the
\* table the first call left: one row per (user, module, tournament), and
\* for each scored user the points and breakdown calculate_scores yields.
C7_UpdateScoresIdempotent ==
    LET once == AfterUpdate(scoreRows)
        data == calculate_scores(Store, predictions, results, 1)
    IN  /\ AfterUpdate(once) = once
        /\ NoDuplicateScores(once)
        /\ \A d \in 1..Len(data) :
              \E i \in 1..Len(once) :
                  /\ once[i].user = data[d].user
                  /\ once[i].module = 1
                  /\ once[i].points = data[d].total_score
                  /\ once[i].score_breakdown = data[d].breakdown

\* C7 witness: both users hold a score row, one with points, and the table is
\* what update_scores leaves for the current predictions and results.
C7_Witness ==
    /\ Len(scoreRows) = 2
    /\ \E i \in 1..Len(scoreRows) : scoreRows[i].points > 0
    /\ AfterUpdate(scoreRows) = scoreRows
    /\ Len(calculate_scores(Store, predictions, results, 1)) = 2


(***************************************************************************)
(* Non-blocking modules and stage advancement (SpecStage).                 *)
(***************************************************************************)
\* A save of module m that turns it from not completed to completed,
\* whatever else it changes.
CompletingSave(m) ==
    /\ ~modules[m].is_completed
    /\ \E end_date \in CreateEndDates, blocking \in BOOLEAN :
           SaveModule(m, end_date, modules[m].finalization_delay_minutes,
                      modules[m].prediction_deadline, blocking, TRUE)

\* C11: a save that completes a module, after which every module of the
\* stage flagged blocking_advancement is completed, marks the stage completed,
\* makes next_stage active and queues its population, whether or not the
\* modules of the stage that are not blocking are completed.
C11_NonBlockingNeverGates ==
    [][\A m \in ModuleIds :
          ( /\ CompletingSave(m)
            /\ \A k \in ModuleIds :
                   modules'[k].blocking_advancement => modules'[k].is_completed )
              => /\ stages'[StageId].is_completed
                 /\ stages'[NextStageId].is_active
                 /\ asyncQueue' = Append(asyncQueue, PopulateTask(NextStageId))]_vars

\* C11 witness: the blocking module is completed, the non-blocking one is
\* not, and the stage has advanced with one population queued.
C11_Witness ==
    /\ modules[1].blocking_advancement /\ modules[1].is_completed
    /\ ~modules[2].blocking_advancement /\ ~modules[2].is_completed
    /\ stages[StageId].is_completed
    /\ stages[NextStageId].is_active
    /\ asyncQueue = <<PopulateTask(NextStageId)>>


(***************************************************************************)
(* Deleting a module (SpecSchedule).                                       *)
(***************************************************************************)
FinalizationRows(rows, m) ==
    Named(rows, FinalizationTaskName(modules[m].mtype, m))

RECURSIVE PointsOfUser(_, _, _)
PointsOfUser(table, user, i) ==
    IF i > Len(table) THEN 0
    ELSE (IF table[i].user = user /\ table[i].tournament = TournamentId
          THEN table[i].points ELSE 0) + PointsOfUser(table, user, i + 1)

AfterAggregation(table, totals_table) ==
    calculate_all_module_scores(table, totals_table, Store, predictions, results)

\* C13: from any reachable state, after calculate_all_module_scores every
\* user who holds a UserModuleScore row of the tournament has exactly one
\* UserTournamentScore row, whose total_points is the sum of the points of
\* that user's UserModuleScore rows; no (user, tournament) has two rows; and a
\* second call with the module scores unchanged leaves both tables as the
\* first call left them.
C13_AggregationSumsAndIsIdempotent ==
    LET once == AfterAggregation(scoreRows, tournamentScores)
    IN  /\ \A u \in Users :
              (\E i \in 1..Len(once.scoreRows) : once.scoreRows[i].user = u)
                  => /\ Cardinality({i \in 1..Len(once.tournamentScores) :
                            once.tournamentScores[i].user = u}) = 1
                     /\ \A i \in 1..Len(once.tournamentScores) :
                            once.tournamentScores[i].user = u
                                => once.tournamentScores[i].total_points
                                       = PointsOfUser(once.scoreRows, u, 1)
        /\ \A i, j \in 1..Len(once.tournamentScores) :
              once.tournamentScores[i].user = once.tournamentScores[j].user
                  => i = j
        /\ AfterAggregation(once.scoreRows, once.tournamentScores) = once

\* C13 witness: both users hold score rows of both modules and one
\* tournament total each, the totals differ, one of them is 6 (3 points from
\* each module), and the tables are what the aggregation leaves for the
\* current state.
C13_Witness ==
    /\ Len(scoreRows) = 4
    /\ Len(tournamentScores) = 2
    /\ tournamentScores[1].total_points # tournamentScores[2].total_points
    /\ \E i \in 1..2 : tournamentScores[i].total_points = 6
    /\ AfterAggregation(scoreRows, tournamentScores)
           = [scoreRows |-> scoreRows, tournamentScores |-> tournamentScores]


(***************************************************************************)
(* Bracket scoring (SpecBracket).                                          *)
(***************************************************************************)
\* The teams of a row that are not NULL.
TeamsOf(row) == {row.team_a_id, row.team_b_id} \ {0}

SameWinnerScoreAndTeams ==
    /\ matchPrediction.predicted_winner_id = matchResult.winner_id
    /\ matchPrediction.predicted_team_a_score = matchResult.team_a_score
    /\ matchPrediction.predicted_team_b_score = matchResult.team_b_score
    /\ TeamsOf(matchPrediction) = TeamsOf(matchResult)

\* C14: a scored match prediction with the winner, the score and the team
\* pairing of its match is scored by the tier correct_winner_score_and_teams
\* with 3 points, and by no lesser exclusive tier.
C14_ExactPredictionScoresTopTier ==
    (rpc = "evaluated" /\ SameWinnerScoreAndTeams)
        => /\ \E k \in 1..Len(evalOut.breakdown) :
                  /\ evalOut.breakdown[k].rule_id = "correct_winner_score_and_teams"
                  /\ evalOut.breakdown[k].points = 3
           /\ \A k \in 1..Len(evalOut.breakdown) :
                  evalOut.breakdown[k].rule_id
                      \notin {"correct_winner_and_score", "correct_winner"}

\* C15: the condition set_equal over the team ids of the prediction and of
\* the match holds exactly when the two sides have the same members once
\* None is dropped, whatever the order.
C15_SetEqualMatchesSameMembers ==
    rpc = "evaluated"
        => (eval_condition(TeamsCondition, MatchPredictionObject(matchPrediction),
                           MatchResultObject(matchResult))
                <=> TeamsOf(matchPrediction) = TeamsOf(matchResult))


(***************************************************************************)
(* Score bounds of a rule set (SpecRules).                                 *)
(***************************************************************************)
ExclusiveRules == {i \in 1..Len(rules) : RulePool[rules[i]].exclusive}

\* The largest score rule i can award: the fixed value or the best score of
\* the map.
BestOfRule(i) ==
    LET scoring == RulePool[rules[i]].scoring
    IN  IF scoring.operator = "fixed" THEN scoring.value
        ELSE IF scoring.operator = "map_points" /\ scoring.scores # <<>>
        THEN CHOOSE x \in {scoring.scores[k] : k \in 1..Len(scoring.scores)} :
                 \A k \in 1..Len(scoring.scores) : scoring.scores[k] <= x
        ELSE 0

RECURSIVE SumBest(_)
SumBest(S) ==
    IF S = {} THEN 0
    ELSE LET i == CHOOSE x \in S : TRUE IN BestOfRule(i) + SumBest(S \ {i})

\* C16: the maximum returned by get_max_and_min_scores is the largest
\* per-rule maximum among the exclusive rules (0 when there is none) plus the
\* per-rule maxima of all non-exclusive rules; the minimum is the smallest
\* per-rule minimum of the exclusive rules plus the minima of the
\* non-exclusive rules, all of which are 0; for the rules exclusive fixed 3
\* and exclusive fixed 1 the maximum is 3.
C16_ExclusiveBoundsDoNotAdd ==
    rpc = "bounded" =>
        /\ maxMinOut.max
               = (IF ExclusiveRules = {} THEN 0
                  ELSE CHOOSE x \in {BestOfRule(i) : i \in ExclusiveRules} :
                           \A i \in ExclusiveRules : BestOfRule(i) <= x)
                 + SumBest((1..Len(rules)) \ ExclusiveRules)
        /\ maxMinOut.min = 0
        /\ rules = <<1, 7>> => maxMinOut.max = 3

\* C16 witness: the bounds of a rule set of two exclusive rules with maxima
\* 3 and 1 and one non-exclusive rule with maximum 2 have been computed, and
\* the maximum is 5.
C16_Witness ==
    /\ rpc = "bounded"
    /\ rules = <<1, 3, 7>>
    /\ maxMinOut = [max |-> 5, min |-> 0]


(***************************************************************************)
(* Task records per name (SpecRequeue).                                    *)
(***************************************************************************)
\* C17: at every moment the Schedule table holds at most one task record
\* per name, for finalization tasks and population retries alike.
C17_OneRecordPerName ==
    \A i, j \in 1..Len(schedules) :
        schedules[i].name = schedules[j].name => i = j


(***************************************************************************)
(* Missing data at finalization (SpecFinalize).                            *)
(***************************************************************************)
\* C18: a handler that finds no usable row for its module does not finalize
\* it on that run: a Swiss module that the finalization task has completed
\* holds at least one result row.
C18_FinalizedOnlyWithData ==
    \A m \in ModuleIds :
        ( /\ Live(Store, m)
          /\ modules[m].mtype = "swissmodule"
          /\ modules[m].is_completed
          /\ HasDate(modules[m].finalized_at) )
            => \E i \in 1..Len(results) : results[i].module = m


(***************************************************************************)
(* Missing source URL at finalization (SpecFinalize).                      *)
(***************************************************************************)
\* C19: when the tournament has no source URL, the step in which a worker
\* leaves the finalization handler ends the task with error missing_url and
\* changes no result row, no module and no schedule row.
C19_MissingUrlIsFatal ==
    [][\A w \in Workers :
          (tasks[w].pc = "handler" /\ tasks'[w].pc # "handler"
               /\ ~tournament.hltv_url)
              => /\ tasks'[w].pc = "idle"
                 /\ tasks'[w].ret = [status |-> "error", reason |-> "missing_url"]
                 /\ UNCHANGED <<results, modules, schedules>>]_vars


(***************************************************************************)
(* Join mismatches at finalization (SpecFinalize).                         *)
(***************************************************************************)
\* A parsed row the module can take: its team is in the Swiss module and its
\* record has a score option, or its match is in the bracket and its winner
\* is a known team.
Usable(rows, m, row) ==
    /\ row.value \in KnownValues
    /\ IF modules[m].mtype = "swissmodule" THEN row.key \in ModuleKeys
       ELSE ResultKeyed(rows, m, row.key) # {}

\* The value the batch gives a key: that of its last usable row.
LastUsable(rows, m, batch, key) ==
    LET hits == {i \in 1..Len(batch) :
                    batch[i].key = key /\ Usable(rows, m, batch[i])}
    IN  batch[CHOOSE i \in hits : \A j \in hits : j <= i].value

\* C20: in every reachable state, the Swiss or bracket handler run on any
\* parsed batch does not raise, stores every usable row of the batch under
\* its key, and changes nothing else: a row naming a team or match outside
\* the module, or a record or winner that is unknown, is passed over and the
\* rows after it are still stored.
C20_BadRowsAreSkipped ==
    \A m \in ModuleIds, b \in 1..Len(BatchPool) :
        ( /\ Live(Store, m)
          /\ modules[m].mtype \in {"swissmodule", "bracket"}
          /\ tournament.hltv_url )
            => LET batch == BatchPool[b]
                   out   == FinalizeHandlerOut(results, m, modules[m].mtype,
                                               batch, 0)
                   keys  == {batch[i].key : i \in {j \in 1..Len(batch) :
                                                  Usable(results, m, batch[j])}}
               IN  /\ out.left = "stored"
                   /\ \A key \in keys :
                          /\ Cardinality(ResultKeyed(out.rows, m, key)) = 1
                          /\ \A i \in ResultKeyed(out.rows, m, key) :
                                 out.rows[i].value
                                     = LastUsable(results, m, batch, key)
                   /\ \A i \in 1..Len(out.rows) :
                          (out.rows[i].module # m \/ out.rows[i].key \notin keys)
                              => i <= Len(results) /\ out.rows[i] = results[i]
                   /\ \A i \in 1..Len(results) :
                          /\ i <= Len(out.rows)
                          /\ out.rows[i].module = results[i].module
                          /\ out.rows[i].key = results[i].key

\* C20 witness: a worker has left the handler of a Swiss module whose batch
\* named team 9, which is not in the module, before team 1: the only result
\* row is that of team 1 with the value of the batch.
C20_Witness ==
    \E w \in Workers :
        /\ tasks[w].pc = "save"
        /\ tasks[w].self.mtype = "swissmodule"
        /\ results = <<[module |-> tasks[w].module, key |-> 1, value |-> 2]>>


(***************************************************************************)
(* Concurrent finalization of two modules (SpecConcurrent).                *)
(***************************************************************************)
\* Both finalization tasks have been dispatched and have run to their end.
BothTasksFinished ==
    /\ \A i \in 1..Len(schedules) : ~Due(schedules[i])
    /\ \A i \in 1..Len(asyncQueue) : ~IsFinalize(asyncQueue[i])
    /\ \A w \in Workers : tasks[w].pc = "idle"

\* The result rows of module m in a table, in order.
RowsOf(rows, m) == SelectSeq(rows, LAMBDA r : r.module = m)

\* The rows of module m when its handler runs alone on the initial table.
OwnResults(m) ==
    LET initial == ConcurrentResults(modules[1].mtype, modules[2].mtype)
    IN  RowsOf(FinalizeHandlerOut(initial, m, modules[m].mtype, BatchOf(m), 0).rows,
               m)

\* C21: in every interleaving of the finalization of the two blocking
\* modules of a stage, once both tasks have finished each module is
\* completed with exactly the result rows its own handler stores, the stage
\* is completed, the next stage is active and a populate task for it has
\* been queued.
C21_ConcurrentFinalizationIsSafe ==
    BothTasksFinished =>
        /\ \A m \in ModuleIds :
               /\ modules[m].is_completed
               /\ HasDate(modules[m].finalized_at)
               /\ RowsOf(results, m) = OwnResults(m)
        /\ stages[StageId].is_completed
        /\ stages[NextStageId].is_active
        /\ \E i \in 1..Len(asyncQueue) : asyncQueue[i] = PopulateTask(NextStageId)

\* C21 witness: both tasks have finished, each worker ran one of them, and
\* both module rows were written before either stage check ran, so that
\* both checks saw both modules completed and each queued a populate task.
C21_Witness ==
    /\ BothTasksFinished
    /\ tasks[1].module = 1
    /\ tasks[2].module = 2
    /\ Len(asyncQueue) = 2


(***************************************************************************)
(* in_list_within_top_x (SpecRules).                                       *)
(***************************************************************************)
TopXRules ==
    {i \in 1..Len(rules) :
        /\ RulePool[rules[i]].has_condition
        /\ RulePool[rules[i]].condition.operator = "in_list_within_top_x"}

\* The name the prediction of the call carries, and the standings of its
\* result as (name, position) records; <<>> when the result has none.
PredictedName == PairPool[pair].prediction.v.name

StandingsOfCall ==
    IF "standings" \in DOMAIN PairPool[pair].result.v
    THEN [k \in 1..Len(PairPool[pair].result.v.standings.v) |->
             [name     |-> PairPool[pair].result.v.standings.v[k].v.name.v,
              position |-> PairPool[pair].result.v.standings.v[k].v.position.v]]
    ELSE <<>>

\* C22: a rule with the condition in_list_within_top_x that evaluate_rules
\* reached is in the breakdown exactly when the predicted name is not None,
\* the standings hold an item of that name, and the first such item has a
\* position of at most top_x; a name that is absent from the standings (or
\* standings that are missing) never match.
C22_TopXLooksAtFirstItem ==
    rpc = "evaluated" =>
        \A i \in TopXRules :
            i <= CutOff =>
                ( (\E k \in 1..Len(evalOut.breakdown) :
                       evalOut.breakdown[k].rule_id = RulePool[rules[i]].id)
                  <=> /\ PredictedName.k = "int"
                      /\ \E k \in 1..Len(StandingsOfCall) :
                             /\ StandingsOfCall[k].name = PredictedName.v
                             /\ \A j \in 1..(k - 1) :
                                    StandingsOfCall[j].name # PredictedName.v
                             /\ StandingsOfCall[k].position
                                    <= RulePool[rules[i]].condition.top_x )

\* C22 witness: an evaluation of the rules top_1 and top_2 for a name whose
\* first item in the standings is at position 3 and whose second item is at
\* position 1: neither rule is in the breakdown.
C22_Witness ==
    /\ rpc = "evaluated"
    /\ rules = <<8, 5>>
    /\ pair = 5
    /\ evalOut.breakdown = <<>>

(***************************************************************************)
(* C23                                                                     *)
(***************************************************************************)
\* The blocks of a validated document with their paths: the condition and
\* the scoring of every rule that has one, and the conditions nested in an
\* "and" that has recognised its conditions.
BlocksOfDocument(rule_docs) ==
    LET conds == {[path |-> <<"rules", i - 1, "condition">>,
                   block |-> rule_docs[i].condition, kind |-> "condition"] :
                  i \in {k \in 1..Len(rule_docs) : rule_docs[k].has_condition}}
        subs == UNION {
                  {[path |-> c.path \o <<"conditions", j - 1>>,
                    block |-> c.block.conditions[j], kind |-> "condition"] :
                   j \in 1..Len(c.block.conditions)} :
                  c \in {x \in conds : /\ x.block.has_operator
                                       /\ x.block.operator = "and"
                                       /\ "conditions" \in x.block.fields}}
        scorings == {[path |-> <<"rules", i - 1, "scoring">>,
                      block |-> rule_docs[i].scoring, kind |-> "scoring"] :
                     i \in {k \in 1..Len(rule_docs) : rule_docs[k].has_scoring}}
    IN  conds \cup subs \cup scorings

KnownOperators(kind) ==
    IF kind = "condition" THEN CONDITION_OPERATORS ELSE SCORING_OPERATORS

RequiredOf(kind, operator) ==
    IF kind = "condition" THEN CONDITION_REQUIRED_FIELDS(operator)
    ELSE SCORING_REQUIRED_FIELDS(operator)

\* The paths of the violations a document contains.
ViolationsOf(rule_docs) ==
    LET blocks == BlocksOfDocument(rule_docs)
        rule_paths ==
            {<<"rules", i - 1, "id">> :
                i \in {k \in 1..Len(rule_docs) : ~rule_docs[k].has_id}}
            \cup {<<"rules", i - 1, "condition">> :
                i \in {k \in 1..Len(rule_docs) : ~rule_docs[k].has_condition}}
            \cup {<<"rules", i - 1, "scoring">> :
                i \in {k \in 1..Len(rule_docs) : ~rule_docs[k].has_scoring}}
            \cup {<<"rules", i - 1, "exclusive">> :
                i \in {k \in 1..Len(rule_docs) :
                          /\ rule_docs[k].has_exclusive
                          /\ ~rule_docs[k].exclusive_is_bool}}
        operator_paths ==
            {Append(b.path, "operator") :
                b \in {x \in blocks :
                          \/ ~x.block.has_operator
                          \/ x.block.operator \notin KnownOperators(x.kind)}}
        field_paths ==
            UNION {
                {Append(b.path, RequiredOf(b.kind, b.block.operator)[f]) :
                    f \in {g \in 1..Len(RequiredOf(b.kind, b.block.operator)) :
                              RequiredOf(b.kind, b.block.operator)[g]
                                  \notin b.block.fields}} :
                b \in {x \in blocks :
                          /\ x.block.has_operator
                          /\ x.block.operator \in KnownOperators(x.kind)}}
    IN  rule_paths \cup operator_paths \cup field_paths

ErrorPaths(out) == {out.errors[i].path : i \in 1..Len(out.errors)}

\* C23: validating a rule-set document reports every violation it contains,
\* each as an error of its own under its structural path (a missing id,
\* condition or scoring of a rule, an unrecognised operator, a missing
\* required field), and the document is valid exactly when the error list
\* is empty, which is exactly when it contains no violation.
C23_EveryViolationIsReported ==
    rpc = "validated" =>
        /\ ErrorPaths(validateOut) = ViolationsOf(DocumentOf(document))
        /\ Len(validateOut.errors) = Cardinality(ViolationsOf(DocumentOf(document)))
        /\ validateOut.is_valid <=> validateOut.errors = <<>>

\* A document with a well-formed rule, a rule with five violations and a rule
\* without id whose fixed scoring has no value: seven errors, among them one
\* under rules[1].condition.conditions[1].target_list and one under
\* rules[2].scoring.value.
C23_Witness ==
    /\ rpc = "validated"
    /\ document = <<1, 5, 2>>
    /\ ~validateOut.is_valid
    /\ Len(validateOut.errors) = 7
    /\ <<"rules", 2, "scoring", "value">> \in ErrorPaths(validateOut)
    /\ <<"rules", 2, "id">> \in ErrorPaths(validateOut)
    /\ <<"rules", 1, "condition", "conditions", 1, "target_list">>
           \in ErrorPaths(validateOut)
    /\ <<"rules", 1, "scoring", "scores">> \in ErrorPaths(validateOut)
    /\ <<"rules", 1, "scoring", "list_item_key">> \in ErrorPaths(validateOut)

(***************************************************************************)
(* C24                                                                     *)
(***************************************************************************)
\* Worker v is inside the finalization handler of module m.
InHandler(v, m) == tasks[v].pc \in {"handler", "save"} /\ tasks[v].module = m

\* C24: concurrent finalization of one module is not guarded: a
\* finalize_module call that loads an ended, not completed module while
\* another worker is inside the handler of the same module passes the
\* is_completed check and enters the handler too.
C24_SameModuleIsNotGuarded ==
    [][\A w \in Workers, v \in Workers, m \in ModuleIds :
          (/\ w # v
           /\ InHandler(v, m)
           /\ tasks[w].pc = "idle"
           /\ asyncQueue # <<>>
           /\ asyncQueue' = Tail(asyncQueue)
           /\ tasks'[w] # tasks[w]
           /\ Head(asyncQueue).args[2] = m
           /\ modules[m].status = "live"
           /\ ~modules[m].is_completed
           /\ HasDate(modules[m].end_date)
           /\ modules[m].end_date[1] <= now)
          => /\ tasks'[w].pc = "handler"
             /\ tasks'[w].module = m
             /\ InHandler(v, m)']_vars

\* Both workers loaded module 1 before either completed it, both ran the
\* handler to its end and both wrote the completion: the second call was
\* not skipped as already completed.
C24_Witness ==
    /\ \A w \in Workers :
          /\ tasks[w].pc = "idle"
          /\ tasks[w].module = 1
          /\ tasks[w].ret = [status |-> "success", reason |-> ""]
          /\ tasks[w].self.is_completed
    /\ modules[1].is_completed
    /\ results # <<>>

(***************************************************************************)
(* C25                                                                     *)
(***************************************************************************)
\* Worker w takes a step of finalize_module.
FinalizeStep(w) == tasks'[w] # tasks[w]

\* C25: a finalization handler calls calculate_scores and never
\* update_scores: no step of finalize_module, from the load of the module
\* to the completion write, creates or changes a UserModuleScore or
\* UserTournamentScore row, so the persisted scores after a finalization
\* are those before it.
C25_FinalizeLeavesScoresAlone ==
    [][(\E w \in Workers : FinalizeStep(w))
          => scoreRows' = scoreRows /\ tournamentScores' = tournamentScores]_vars

\* A finalization succeeded, stored results that give user 1 points, and
\* the score tables are still empty: update_scores would write a row now.
C25_Witness ==
    /\ \E w \in Workers :
          /\ tasks[w].ret = [status |-> "success", reason |-> ""]
          /\ tasks[w].module = 1
    /\ modules[1].is_completed
    /\ results # <<>>
    /\ calculate_scores(Store, predictions, results, 1) # <<>>
    /\ scoreRows = <<>>
    /\ tournamentScores = <<>>
    /\ update_scores(scoreRows, Store, predictions, results, 1) # scoreRows

(***************************************************************************)
(* C26                                                                     *)
(***************************************************************************)
\* The populate_stage_modules tasks enqueued for the next stage and not yet
\* taken by a worker.
PopulateTriggers ==
    {i \in 1..Len(asyncQueue) :
        /\ asyncQueue[i].func = "fantasy.tasks.populate_stage_modules"
        /\ asyncQueue[i].args = <<NextStageId>>}

\* C26: across the completions of the modules of one stage, population of
\* the next stage is triggered at most once: a completion that comes after
\* the stage is completed does not enqueue populate_stage_modules again.
C26_PopulationTriggeredOnce == Cardinality(PopulateTriggers) <= 1

(***************************************************************************)
(* C27                                                                     *)
(***************************************************************************)
\* Worker w leaves the handler by an exception raised while fetching,
\* storing results or calculating scores.
HandlerRaises(w) ==
    /\ tasks[w].pc = "handler"
    /\ tasks'[w].pc = "idle"
    /\ tasks'[w].ret.status = "raised"

\* The completion fields of module m change in this step.
CompletionWritten(m) ==
    /\ modules[m].status = "live"
    /\ modules'[m].status = "live"
    /\ \/ modules'[m].is_completed # modules[m].is_completed
       \/ modules'[m].finalized_at # modules[m].finalized_at

\* finalize_module is delivered to worker w for module m.
Delivered(w, m) ==
    /\ tasks[w].pc = "idle"
    /\ asyncQueue # <<>>
    /\ IsFinalize(Head(asyncQueue))
    /\ Head(asyncQueue).args[2] = m
    /\ asyncQueue' = Tail(asyncQueue)
    /\ tasks'[w] # tasks[w]

\* C27: is_completed and finalized_at are written only by the last step of
\* a handler, after fetching, result ingestion and calculate_scores: a
\* handler that raises in one of those leaves the exception to the caller
\* and writes neither the module nor the stage nor the task queue, and a
\* finalize_module task delivered for a module that is still not completed
\* runs the handler again.
C27_CompletionIsTheLastStep ==
    [][/\ \A w \in Workers :
             HandlerRaises(w)
                 => /\ modules' = modules
                    /\ stages' = stages
                    /\ asyncQueue' = asyncQueue
                    /\ schedules' = schedules
       /\ \A m \in ModuleIds :
             CompletionWritten(m)
                 => \E w \in Workers :
                       /\ tasks[w].pc = "save"
                       /\ tasks[w].module = m
                       /\ tasks'[w].pc = "idle"
                       /\ tasks'[w].ret.status = "success"
                       /\ modules'[m].is_completed
                       /\ modules'[m].finalized_at = At(now)
       /\ \A w \in Workers, m \in ModuleIds :
             (/\ Delivered(w, m)
              /\ modules[m].status = "live"
              /\ ~modules[m].is_completed
              /\ HasDate(modules[m].end_date)
              /\ modules[m].end_date[1] <= now)
                 => tasks'[w].pc = "handler"]_vars

\* The stats handler of worker 1 stored the result of the first definition
\* and raised on the fetch of the second: module 1 is not completed, its
\* finalized_at is unset, the stage is not completed and nothing is queued
\* for the next stage, and worker 2 runs the handler on a second delivery.
C27_Witness ==
    /\ tasks[1].pc = "idle"
    /\ tasks[1].module = 1
    /\ tasks[1].ret = [status |-> "raised", reason |-> "fetch"]
    /\ modules[1].mtype = "statpredictionsmodule"
    /\ results # <<>>
    /\ modules[1].status = "live"
    /\ ~modules[1].is_completed
    /\ ~HasDate(modules[1].finalized_at)
    /\ ~stages[StageId].is_completed
    /\ asyncQueue = <<>>
    /\ tasks[2].pc = "handler"
    /\ tasks[2].module = 1

(***************************************************************************)
(* C28                                                                     *)
(***************************************************************************)
\* C28: from any reachable state, after update_scores(module) every
\* UserModuleScore row of the module holds the points calculate_scores
\* yields for its user now; a user who is not in the computed map holds no
\* row with non-zero points.
C28_NoStaleScoreRows ==
    LET once == AfterUpdate(scoreRows)
        data == calculate_scores(Store, predictions, results, 1)
    IN  \A i \in 1..Len(once) :
            once[i].module = 1 =>
                IF \E d \in 1..Len(data) : data[d].user = once[i].user
                THEN \A d \in 1..Len(data) :
                         data[d].user = once[i].user
                             => once[i].points = data[d].total_score
                ELSE once[i].points = 0

(***************************************************************************)
(* C29                                                                     *)
(***************************************************************************)
\* C29: in every state reached through module saves, a finalization task
\* record of a module implies that the module has an end_date and that the
\* task is due at the module's current end_date + finalization_delay_minutes.
C29_TaskFollowsEndDate ==
    \A m \in ModuleIds :
        modules[m].status = "live" =>
            \A i \in Named(schedules, FinalizationTaskName(modules[m].mtype, m)) :
                /\ HasDate(modules[m].end_date)
                /\ schedules[i].next_run =
                       modules[m].end_date[1] + modules[m].finalization_delay_minutes

(***************************************************************************)
(* C30                                                                     *)
(***************************************************************************)
\* C30: for every rule list scored by fixed and map_points only and every
\* prediction/result pair, the total of evaluate_rules lies between the
\* minimum and the maximum that get_max_and_min_scores returns for the rule
\* list, negative point values included.
C30_TotalWithinBounds ==
    (/\ rpc = "evaluated"
     /\ handler = "sum"
     /\ \A i \in 1..Len(rules) :
           RulePool[rules[i]].scoring.operator \in {"fixed", "map_points"})
        => LET bounds == get_max_and_min_scores(RulesOf(rules))
           IN  /\ bounds.min <= evalOut.total_score
               /\ evalOut.total_score <= bounds.max

====
